---- MODULE Spec2Model ----
(***************************************************************************)
(* Consistency scoring engine of the PEI activity extractor.               *)
(*                                                                         *)
(*   src/consistency.py  Keyword-Group Scorer (evaluate_consistency and    *)
(*                       its application to the Clean and Resumen tables)  *)
(*   src/utils.py        Similarity-Ranking Scorer (build_tfidf_model,     *)
(*                       score_consistency, compute_consistency_for_df)    *)
(*   src/app.py          the scorer the application calls                  *)
(*                       (map_similarity_to_score, compute_consistency)    *)
(*                                                                         *)
(* Texts are strings.  A table cell is a record whose field k names the    *)
(* kind of Python value it holds: "str" (field s), "nan" (float NaN),      *)
(* "none" (None), "nat" (NaT), "date" (a Timestamp at midnight, field s =  *)
(* its date), "num" (an int, field n), "float" (a float, field x).         *)
(* Percentages of the keyword scorer are integers in tenths of a percent   *)
(* (1000 = 100.0); similarities are IEEE-754 doubles.                      *)
(***************************************************************************)
EXTENDS Integers, Sequences, FiniteSets, TLC

VARIABLES df, naKept, op, pc, wk, out, call

vars == <<df, naKept, op, pc, wk, out, call>>

(***************************************************************************)
(* Python string primitives used by the scorers.                           *)
(***************************************************************************)
StrCell(t) == [k |-> "str", s |-> t]
NaN == [k |-> "nan"]
None == [k |-> "none"]
DateCell(d) == [k |-> "date", s |-> d]
NumCell(x) == [k |-> "num", n |-> x]
\* a float that is not NaN: x is the double
FloatCell(x) == [k |-> "float", x |-> x]
\* NaT, the missing value of a datetime column
NaT == [k |-> "nat"]

IsNull(c) == c.k \in {"nan", "none", "nat"}

DigitChars == <<"0", "1", "2", "3", "4", "5", "6", "7", "8", "9">>

\* str(n) of an int
RECURSIVE IntStr(_)
IntStr(n) ==
  IF n < 0 THEN "-" \o IntStr(-n)
  ELSE IF n < 10 THEN DigitChars[n + 1]
  ELSE IntStr(n \div 10) \o DigitChars[(n % 10) + 1]

\* str(x) of a scalar taken out of a table
PyStr(c) ==
  CASE c.k = "str" -> c.s
    [] c.k = "nan" -> "nan"
    [] c.k = "none" -> "None"
    [] c.k = "nat" -> "NaT"
    [] c.k = "date" -> c.s \o " 00:00:00"
    [] c.k = "num" -> IntStr(c.n)

\* The characters of the texts are those of Latin-1 (code points below 256).
\* The cased letters among them, and their str.lower()
UpperChars == <<"A", "B", "C", "D", "E", "F", "G", "H", "I", "J", "K", "L",
                "M", "N", "O", "P", "Q", "R", "S", "T", "U", "V", "W", "X",
                "Y", "Z", "À", "Á", "Â", "Ã", "Ä", "Å", "Æ", "Ç", "È", "É",
                "Ê", "Ë", "Ì", "Í", "Î", "Ï", "Ð", "Ñ", "Ò", "Ó", "Ô", "Õ",
                "Ö", "Ø", "Ù", "Ú", "Û", "Ü", "Ý", "Þ">>
LowerChars == <<"a", "b", "c", "d", "e", "f", "g", "h", "i", "j", "k", "l",
                "m", "n", "o", "p", "q", "r", "s", "t", "u", "v", "w", "x",
                "y", "z", "à", "á", "â", "ã", "ä", "å", "æ", "ç", "è", "é",
                "ê", "ë", "ì", "í", "î", "ï", "ð", "ñ", "ò", "ó", "ô", "õ",
                "ö", "ø", "ù", "ú", "û", "ü", "ý", "þ">>

LowerOf ==
  [c \in {UpperChars[i] : i \in 1..Len(UpperChars)} |->
     LowerChars[CHOOSE i \in 1..Len(UpperChars) : UpperChars[i] = c]]

LowerChar(c) == IF c \in DOMAIN LowerOf THEN LowerOf[c] ELSE c

\* str.lower()
RECURSIVE Lower(_)
Lower(t) ==
  IF Len(t) = 0 THEN ""
  ELSE LowerChar(SubSeq(t, 1, 1)) \o Lower(SubSeq(t, 2, Len(t)))

\* str.isspace() of a character: tab, line feed, vertical tab, form feed,
\* carriage return, the four separators 1C-1F, space, next line and no-break
\* space
SpaceChars == {"\t", "\n", "", "\f", "\r", "", "", "", "", " ", "",
               " "}

IsSpace(c) == c \in SpaceChars

RECURSIVE LStrip(_)
LStrip(t) ==
  IF Len(t) > 0 /\ IsSpace(SubSeq(t, 1, 1)) THEN LStrip(SubSeq(t, 2, Len(t)))
  ELSE t

RECURSIVE RStrip(_)
RStrip(t) ==
  IF Len(t) > 0 /\ IsSpace(SubSeq(t, Len(t), Len(t)))
  THEN RStrip(SubSeq(t, 1, Len(t) - 1))
  ELSE t

\* str.strip()
Strip(t) == RStrip(LStrip(t))

\* the sequence of maximal runs of characters satisfying no separator test:
\* cur is the run being read, acc the runs already closed
RECURSIVE SplitWS(_, _, _)
SplitWS(t, cur, acc) ==
  IF Len(t) = 0 THEN (IF Len(cur) > 0 THEN Append(acc, cur) ELSE acc)
  ELSE LET c == SubSeq(t, 1, 1)
           rest == SubSeq(t, 2, Len(t))
       IN IF IsSpace(c)
          THEN SplitWS(rest, "", IF Len(cur) > 0 THEN Append(acc, cur) ELSE acc)
          ELSE SplitWS(rest, cur \o c, acc)

\* str.split()
Split(t) == SplitWS(t, "", <<>>)

\* k in t  (substring test)
Contains(t, k) ==
  \E i \in 1..(Len(t) - Len(k) + 1) : SubSeq(t, i, i + Len(k) - 1) = k

(***************************************************************************)
(* src/consistency.py : Keyword-Group Scorer                               *)
(***************************************************************************)
\* number of entries of the list keywords that occur in text
RECURSIVE CountMatches(_, _)
CountMatches(text, keywords) ==
  IF keywords = <<>> THEN 0
  ELSE (IF Contains(text, Head(keywords)) THEN 1 ELSE 0)
       + CountMatches(text, Tail(keywords))

\* score_match asking for more than two matches before it gives 1.0
score_match_strict(activity, keywords) ==
  LET text == Lower(activity)
      matches == CountMatches(text, keywords)
  IN IF matches > 2 THEN 10
     ELSE IF matches = 1 THEN 5
     ELSE 0

\* sub-scores are in tenths: 10 = 1.0, 5 = 0.5
score_match(activity, keywords) ==
  LET text == Lower(activity)
      matches == CountMatches(text, keywords)
  IN IF matches >= 2 THEN 10
     ELSE IF matches = 1 THEN 5
     ELSE 0

thematic_groups ==
  << [cat |-> "calidad",
      words |-> <<"monitoreo", "seguimiento", "evaluación", "mejora", "indicador">>],
     [cat |-> "convenios",
      words |-> <<"convenio", "articulación", "alianza", "acuerdo">>],
     [cat |-> "docencia",
      words |-> <<"capacitación", "formación", "docente", "curso", "clase">>],
     [cat |-> "investigación",
      words |-> <<"proyecto", "investigación", "paper", "publicación">>],
     [cat |-> "extensión",
      words |-> <<"extensión", "comunidad", "social", "vinculación">>],
     [cat |-> "gestión",
      words |-> <<"reunión", "planificación", "comisión", "organización", "gestión">>] >>

AnyIn(text, words) == \E i \in 1..Len(words) : Contains(text, words[i])

\* the category loop without its break: the last matching group is kept
RECURSIVE DetectLast(_, _)
DetectLast(obj, g) ==
  IF g = 0 THEN "otros"
  ELSE IF AnyIn(obj, thematic_groups[g].words) THEN thematic_groups[g].cat
  ELSE DetectLast(obj, g - 1)

DetectCategoryLast(obj) == DetectLast(obj, Len(thematic_groups))

\* the for/break loop over thematic_groups.items(), started at group g
RECURSIVE DetectFrom(_, _)
DetectFrom(obj, g) ==
  IF g > Len(thematic_groups) THEN "otros"
  ELSE IF AnyIn(obj, thematic_groups[g].words) THEN thematic_groups[g].cat
  ELSE DetectFrom(obj, g + 1)

DetectCategory(obj) == DetectFrom(obj, 1)

\* thematic_groups.get(category, [])
GroupWords(category) ==
  IF \E g \in 1..Len(thematic_groups) : thematic_groups[g].cat = category
  THEN thematic_groups[CHOOSE g \in 1..Len(thematic_groups) :
                         thematic_groups[g].cat = category].words
  ELSE <<>>

\* [w for w in obj.split() if len(w) > 3]
BaseKeywords(obj) == SelectSeq(Split(obj), LAMBDA w : Len(w) > 3)

action_verbs ==
  <<"realizar", "implementar", "evaluar", "crear", "organizar",
    "desarrollar", "monitorear", "diseñar", "consolidar", "actualizar">>

\* the operational sub-score measuring the activity without trimming it
OperationalUntrimmed(act) ==
  IF AnyIn(act, action_verbs) THEN 10
  ELSE IF Len(act) > 3 THEN 5
  ELSE 0

Operational(act) ==
  IF AnyIn(act, action_verbs) THEN 10
  ELSE IF Len(Strip(act)) > 3 THEN 5
  ELSE 0

\* round(IC * 100, 1), IC in thousandths, result in tenths of a percent
RoundPct(ic) == (ic * 100 + 50) \div 100

\* the local variables of evaluate_consistency when it returns; objective and
\* activity are cells: whatever value the caller hands over
ConsistencyLocals(objective, activity) ==
  LET obj == Lower(PyStr(objective))
      act == Lower(PyStr(activity))
      category == DetectCategory(obj)
      semantic == score_match(act, BaseKeywords(obj))
      thematic == score_match(act, GroupWords(category))
      operational == Operational(act)
  IN [obj |-> obj, act |-> act, category |-> category,
      semantic |-> semantic, thematic |-> thematic, operational |-> operational,
      IC |-> semantic * 40 + thematic * 40 + operational * 20]

evaluate_consistency(objective, activity) ==
  RoundPct(ConsistencyLocals(objective, activity).IC)

\* lambda x: "Alta" if x >= 71 else "Media" if x >= 31 else "Baja"
Nivel(x) == IF x >= 710 THEN "Alta" ELSE IF x >= 310 THEN "Media" ELSE "Baja"

(***************************************************************************)
(* IEEE-754 binary64 arithmetic, as numpy and Python floats carry it out:  *)
(* every operation returns the double nearest to the exact result, ties to *)
(* the even mantissa.  A positive double is [m, e] with value m * 2^e and  *)
(* a 53-bit mantissa m held as <<hi, lo>> = hi * 2^26 + lo; mantissas are  *)
(* multiplied and divided in words of 13 bits, so that every intermediate  *)
(* value fits the 32-bit integers of the checker.  Only 0.0 and the        *)
(* positive normal doubles occur in this program.                          *)
(***************************************************************************)
Limb == 67108864
Word == 8192

WGeq(x, y) == x[1] > y[1] \/ (x[1] = y[1] /\ x[2] >= y[2])

WOdd(x) == x[2] % 2 = 1

WDbl(x) == <<2 * x[1] + (2 * x[2]) \div Limb, (2 * x[2]) % Limb>>

WHalf(x) == <<x[1] \div 2, (x[1] % 2) * (Limb \div 2) + x[2] \div 2>>

WAdd(x, y) == <<x[1] + y[1] + (x[2] + y[2]) \div Limb, (x[2] + y[2]) % Limb>>

WSub(x, y) ==
  IF x[2] >= y[2] THEN <<x[1] - y[1], x[2] - y[2]>>
  ELSE <<x[1] - y[1] - 1, x[2] + Limb - y[2]>>

\* 0.0
Zero == [m |-> <<0, 0>>, e |-> -1100]

IsZero(a) == a.m[1] = 0

\* a mantissa that rounding carried to 2^53 is renormalised to 2^52
Normal(m, e) ==
  IF m = <<2 * Limb, 0>> THEN [m |-> <<Limb, 0>>, e |-> e + 1] ELSE [m |-> m, e |-> e]

\* round to nearest, ties to even: g is the first bit dropped, s whether any
\* later one was set
Rounded(m, g, s, e) == Normal(IF g /\ (s \/ WOdd(m)) THEN WAdd(m, <<0, 1>>) ELSE m, e)

\* the four 13-bit words of a mantissa below its leading bit, lowest first
Words(m) == <<m[2] % Word, m[2] \div Word, m[1] % Word, (m[1] \div Word) % Word>>

\* a * b: the 106-bit product of the mantissas, column by column with carry,
\* then its leading 53 bits rounded
FMul(a, b) ==
  IF IsZero(a) \/ IsZero(b) THEN Zero
  ELSE LET x == Words(a.m)
           y == Words(b.m)
           t0 == x[1] * y[1]
           t1 == x[1] * y[2] + x[2] * y[1] + t0 \div Word
           t2 == x[1] * y[3] + x[2] * y[2] + x[3] * y[1] + t1 \div Word
           t3 == x[1] * y[4] + x[2] * y[3] + x[3] * y[2] + x[4] * y[1] + t2 \div Word
           t4 == x[1] + y[1] + x[2] * y[4] + x[3] * y[3] + x[4] * y[2] + t3 \div Word
           t5 == x[2] + y[2] + x[3] * y[4] + x[4] * y[3] + t4 \div Word
           t6 == x[3] + y[3] + x[4] * y[4] + t5 \div Word
           t7 == x[4] + y[4] + t6 \div Word
           t8 == 1 + t7 \div Word
           low == (t0 % Word) # 0 \/ (t1 % Word) # 0 \/ (t2 % Word) # 0
           d3 == t3 % Word
           p == <<t8 * Limb + (t7 % Word) * Word + (t6 % Word),
                  (t5 % Word) * Word + (t4 % Word)>>
       IN IF p[1] >= 2 * Limb
          THEN Rounded(WHalf(p), WOdd(p), low \/ d3 # 0, a.e + b.e + 53)
          ELSE Rounded(p, d3 >= Word \div 2, low \/ (d3 % (Word \div 2)) # 0,
                       a.e + b.e + 52)

\* 13 more bits of the quotient r / d, for r < d: the digit q, estimated from
\* the leading 18 bits and corrected, and the remainder n = r * 2^13 - q * d
DivStep(r, d) ==
  LET y == Words(d)
      q == ((r[1] \div 512) * Word) \div (d[1] \div 512 + 1)
      t0 == 0 - q * y[1]
      t1 == (r[2] % Word) - q * y[2] + t0 \div Word
      t2 == r[2] \div Word - q * y[3] + t1 \div Word
      t3 == (r[1] % Word) - q * y[4] + t2 \div Word
      t4 == ((r[1] \div Word) % Word) - q + t3 \div Word
      n == <<(t4 % Word) * Limb + (t3 % Word) * Word + (t2 % Word),
             (t1 % Word) * Word + (t0 % Word)>>
  IN IF WGeq(n, d) THEN [q |-> q + 1, n |-> WSub(n, d)] ELSE [q |-> q, n |-> n]

\* a / b, for b > 0: the leading bit of the quotient, then four digits
FDiv(a, b) ==
  IF IsZero(a) THEN Zero
  ELSE LET below == ~WGeq(a.m, b.m)
           s1 == DivStep(WSub(IF below THEN WDbl(a.m) ELSE a.m, b.m), b.m)
           s2 == DivStep(s1.n, b.m)
           s3 == DivStep(s2.n, b.m)
           s4 == DivStep(s3.n, b.m)
           twice == WDbl(s4.n)
       IN Rounded(<<Limb + s1.q * Word + s2.q, s3.q * Word + s4.q>>,
                  WGeq(twice, b.m), twice # b.m,
                  a.e - b.e - 52 - (IF below THEN 1 ELSE 0))

\* m shifted right n bits: g is the last bit shifted out, s whether any
\* earlier one was set
ShiftRight(m, n) ==
  IF n = 0 THEN [m |-> m, g |-> FALSE, s |-> FALSE]
  ELSE IF n <= 26
  THEN LET p == 2 ^ n
           lost == m[2] % p
       IN [m |-> <<m[1] \div p, (m[1] % p) * (Limb \div p) + m[2] \div p>>,
           g |-> lost >= p \div 2, s |-> (lost % (p \div 2)) # 0]
  ELSE IF n <= 53
  THEN LET p == 2 ^ (n - 26)
           lost == m[1] % p
       IN [m |-> <<0, m[1] \div p>>,
           g |-> lost >= p \div 2, s |-> (lost % (p \div 2)) # 0 \/ m[2] # 0]
  ELSE [m |-> <<0, 0>>, g |-> FALSE, s |-> TRUE]

\* a + b
FAdd(a, b) ==
  IF IsZero(a) THEN b
  ELSE IF IsZero(b) THEN a
  ELSE LET x == IF a.e >= b.e THEN a ELSE b
           y == IF a.e >= b.e THEN b ELSE a
           sh == ShiftRight(y.m, x.e - y.e)
           t == WAdd(x.m, sh.m)
       IN IF t[1] >= 2 * Limb
          THEN Rounded(WHalf(t), WOdd(t), sh.g \/ sh.s, x.e + 1)
          ELSE Rounded(t, sh.g, sh.s, x.e)

\* a >= b
FGeq(a, b) == a.e > b.e \/ (a.e = b.e /\ WGeq(a.m, b.m))

\* integer square root by Newton's iteration from above: floor(sqrt(x))
RECURSIVE IntSqrtFrom(_, _)
IntSqrtFrom(x, r) ==
  LET next == (r + x \div r) \div 2
  IN IF next >= r THEN r ELSE IntSqrtFrom(x, next)

IntSqrt(x) == IF x = 0 THEN 0 ELSE IntSqrtFrom(x, 46340)

\* what is left of rem2 * 2^26 when the 27-bit root r2 is extended by the
\* digit s: rem2 * 2^26 - (2 * r2 * 2^13 + s) * s as <<high, low>>, high < 0
\* when s is too large
Left3(rem2, r2, s) ==
  LET t0 == 0 - s * s
      t1 == t0 \div Word - 2 * (r2 % Word) * s
  IN <<rem2 - 2 * (r2 \div Word) * s + t1 \div Word, (t1 % Word) * Word + (t0 % Word)>>

\* the same for the 40-bit root r2 * 2^13 + s3 and the remainder rem3
Left4(rem3, r2, s3, s) ==
  LET t0 == 0 - s * s
      t1 == t0 \div Word - 2 * s * s3
      t2 == (rem3[2] % Word) - 2 * s * (r2 % Word) + t1 \div Word
      t3 == rem3[2] \div Word - 2 * s * (r2 \div Word) + t2 \div Word
      t4 == rem3[1] + t3 \div Word
  IN <<t4 * Limb + (t3 % Word) * Word + (t2 % Word), (t1 % Word) * Word + (t0 % Word)>>

\* The root of the mantissa x, scaled to 105 or 106 bits, digit by digit.
\* Its leading 14 bits, by integer square root: the root r and what is left
Root1(x) ==
  LET r1 == IntSqrt(x[1])
  IN [r |-> r1, rem |-> x[1] - r1 * r1]

\* 13 more bits: the digit is the quotient of the remainder by twice the
\* root, or one less
Root2(x, p) ==
  LET n == p.rem * Word + x[2] \div Word
      c2 == IF n \div (2 * p.r) >= Word THEN Word - 1 ELSE n \div (2 * p.r)
      v2 == (n - 2 * p.r * c2) * Word + (x[2] % Word) - c2 * c2
  IN IF v2 < 0 THEN [r |-> p.r * Word + c2 - 1, rem |-> v2 + 2 * p.r * Word + 2 * c2 - 1]
     ELSE [r |-> p.r * Word + c2, rem |-> v2]

\* 13 more bits, estimated from the leading bits of the remainder: the
\* largest digit among c3, c3 - 1, c3 - 2 that leaves a remainder
Root3(p) ==
  LET e3 == ((p.rem \div 1024) * Word) \div ((2 * p.r) \div 1024 + 1) + 1
      c3 == IF e3 >= Word THEN Word - 1 ELSE e3
      s3 == CHOOSE s \in {c3, c3 - 1, c3 - 2} :
              /\ Left3(p.rem, p.r, s)[1] >= 0
              /\ s = c3 \/ Left3(p.rem, p.r, s + 1)[1] < 0
  IN [r |-> p.r, s3 |-> s3, rem |-> Left3(p.rem, p.r, s3)]

\* the last 13 bits, likewise
Root4(p) ==
  LET e4 == ((p.rem[1] * 8 + p.rem[2] \div 8388608) * Word) \div (p.r \div 512 + 1) + 1
      c4 == IF e4 >= Word THEN Word - 1 ELSE e4
      s4 == CHOOSE s \in {c4, c4 - 1, c4 - 2} :
              /\ Left4(p.rem, p.r, p.s3, s)[1] >= 0
              /\ s = c4 \/ Left4(p.rem, p.r, p.s3, s + 1)[1] < 0
  IN [m |-> <<p.r, p.s3 * Word + s4>>, rem |-> Left4(p.rem, p.r, p.s3, s4)]

\* the 53-bit root rounded: up when what is left exceeds the root
RootOf(x, e) ==
  LET p == Root4(Root3(Root2(x, Root1(x))))
  IN Normal(IF WGeq(p.rem, p.m) /\ p.rem # p.m THEN WAdd(p.m, <<0, 1>>) ELSE p.m, e)

\* sqrt(a)
FSqrt(a) ==
  IF IsZero(a) THEN Zero
  ELSE IF a.e % 2 = 0 THEN RootOf(a.m, (a.e - 52) \div 2)
  ELSE RootOf(WDbl(a.m), (a.e - 53) \div 2)

\* the double a decimal literal k / d denotes, for 0 < k < 2d and d <= 10^6:
\* the leading bit, then 52 more in pieces short enough for the machine word
Double(k, d) ==
  LET s == CHOOSE i \in 0..20 : (d + k - 1) \div k <= 2 ^ i /\ 2 ^ i <= (2 * d - 1) \div k
      Piece(r, w) == [q |-> (r * 2 ^ w) \div d, r |-> (r * 2 ^ w) % d]
      h1 == Piece(k * 2 ^ s - d, 10)
      h2 == Piece(h1.r, 10)
      h3 == Piece(h2.r, 6)
      l1 == Piece(h3.r, 10)
      l2 == Piece(l1.r, 10)
      l3 == Piece(l2.r, 6)
      q == <<Limb + h1.q * 65536 + h2.q * 64 + h3.q, l1.q * 65536 + l2.q * 64 + l3.q>>
  IN Rounded(q, 2 * l3.r >= d, 2 * l3.r # d, (-52) - s)

\* float(n) for an integer 0 < n < 2^26
IntDouble(n) ==
  LET k == CHOOSE i \in 0..25 : 2 ^ i <= n /\ n < 2 ^ (i + 1)
  IN [m |-> <<n * 2 ^ (26 - k), 0>>, e |-> k - 52]

\* the literals of score_consistency and map_similarity_to_score: 0.10,
\* 0.20, ... in hundredths, and 1e-6
Hundredths == [p \in {10, 20, 25, 30, 40, 55, 70, 80, 90, 95} |-> Double(p, 100)]

Epsilon == Double(1, 1000000)

\* score_consistency without the rank test of the near-best rule
score_consistency_any_rank(sim_selected, sim_best, rank_selected) ==
  LET ratio == FDiv(sim_selected, FAdd(sim_best, Epsilon))
  IN IF ~FGeq(sim_best, Hundredths[10]) THEN 30
     ELSE IF rank_selected = 1
          THEN IF FGeq(sim_selected, Hundredths[40]) /\ FGeq(ratio, Hundredths[95])
               THEN 100
               ELSE IF FGeq(sim_selected, Hundredths[30]) /\ FGeq(ratio, Hundredths[90])
               THEN 90
               ELSE IF FGeq(sim_selected, Hundredths[20]) /\ FGeq(ratio, Hundredths[80])
               THEN 70
               ELSE 50
     ELSE IF FGeq(ratio, Hundredths[70]) THEN 30
     ELSE IF FGeq(ratio, Hundredths[40]) THEN 10
     ELSE 0

\* score_consistency testing the weak-relation rule before the rank 2-3 rule
score_consistency_swapped(sim_selected, sim_best, rank_selected) ==
  LET ratio == FDiv(sim_selected, FAdd(sim_best, Epsilon))
  IN IF ~FGeq(sim_best, Hundredths[10]) THEN 30
     ELSE IF rank_selected = 1
          THEN IF FGeq(sim_selected, Hundredths[40]) /\ FGeq(ratio, Hundredths[95])
               THEN 100
               ELSE IF FGeq(sim_selected, Hundredths[30]) /\ FGeq(ratio, Hundredths[90])
               THEN 90
               ELSE IF FGeq(sim_selected, Hundredths[20]) /\ FGeq(ratio, Hundredths[80])
               THEN 70
               ELSE 50
     ELSE IF FGeq(ratio, Hundredths[40]) THEN 10
     ELSE IF rank_selected \in {2, 3} /\ FGeq(ratio, Hundredths[70]) THEN 30
     ELSE 0

(***************************************************************************)
(* src/utils.py : score_consistency.  The similarities are doubles; ratio  *)
(* is the double sim_selected / (sim_best + 1e-6).                         *)
(***************************************************************************)
score_consistency(sim_selected, sim_best, rank_selected) ==
  LET ratio == FDiv(sim_selected, FAdd(sim_best, Epsilon))
  IN IF ~FGeq(sim_best, Hundredths[10]) THEN 30
     ELSE IF rank_selected = 1
          THEN IF FGeq(sim_selected, Hundredths[40]) /\ FGeq(ratio, Hundredths[95])
               THEN 100
               ELSE IF FGeq(sim_selected, Hundredths[30]) /\ FGeq(ratio, Hundredths[90])
               THEN 90
               ELSE IF FGeq(sim_selected, Hundredths[20]) /\ FGeq(ratio, Hundredths[80])
               THEN 70
               ELSE 50
     ELSE IF rank_selected \in {2, 3} /\ FGeq(ratio, Hundredths[70]) THEN 30
     ELSE IF FGeq(ratio, Hundredths[40]) THEN 10
     ELSE 0

(***************************************************************************)
(* src/utils.py : build_tfidf_model, and the cosine similarity of its rows *)
(* TfidfVectorizer(lowercase=True, ngram_range=(1, 2), stop_words=         *)
(* STOPWORDS_ES, min_df=1): documents are lower-cased, cut into the        *)
(* maximal runs of two or more word characters, stop words are dropped,    *)
(* and the terms are the remaining tokens and the pairs of neighbours.     *)
(* The features are the terms in sorted order.  A weight is the double     *)
(* tf * idf with idf = ln((1 + n) / (1 + df)) + 1, and every row is        *)
(* divided by its l2 norm; sums run over a row's entries in feature order, *)
(* one double operation at a time.                                         *)
(***************************************************************************)
STOPWORDS_ES ==
  {"de", "la", "el", "los", "las", "y", "en", "del", "para", "con",
   "a", "por", "una", "un", "al", "que", "se", "su", "sus"}

\* the characters matched by \w: letters, digits and the underscore
WordChars ==
  {"0", "1", "2", "3", "4", "5", "6", "7", "8", "9", "A", "B", "C", "D", "E",
   "F", "G", "H", "I", "J", "K", "L", "M", "N", "O", "P", "Q", "R", "S", "T",
   "U", "V", "W", "X", "Y", "Z", "_", "a", "b", "c", "d", "e", "f", "g", "h",
   "i", "j", "k", "l", "m", "n", "o", "p", "q", "r", "s", "t", "u", "v", "w",
   "x", "y", "z", "ª", "²", "³", "µ", "¹", "º", "¼", "½", "¾", "À", "Á", "Â",
   "Ã", "Ä", "Å", "Æ", "Ç", "È", "É", "Ê", "Ë", "Ì", "Í", "Î", "Ï", "Ð", "Ñ",
   "Ò", "Ó", "Ô", "Õ", "Ö", "Ø", "Ù", "Ú", "Û", "Ü", "Ý", "Þ", "ß", "à", "á",
   "â", "ã", "ä", "å", "æ", "ç", "è", "é", "ê", "ë", "ì", "í", "î", "ï", "ð",
   "ñ", "ò", "ó", "ô", "õ", "ö", "ø", "ù", "ú", "û", "ü", "ý", "þ", "ÿ"}

IsWordChar(c) == c \in WordChars

\* the matches of the token pattern \b\w\w+\b
RECURSIVE SplitTokens(_, _, _)
SplitTokens(t, cur, acc) ==
  IF Len(t) = 0 THEN (IF Len(cur) >= 2 THEN Append(acc, cur) ELSE acc)
  ELSE LET c == SubSeq(t, 1, 1)
           rest == SubSeq(t, 2, Len(t))
       IN IF IsWordChar(c)
          THEN SplitTokens(rest, cur \o c, acc)
          ELSE SplitTokens(rest, "", IF Len(cur) >= 2 THEN Append(acc, cur) ELSE acc)

Tokens(doc) ==
  SelectSeq(SplitTokens(Lower(doc), "", <<>>), LAMBDA w : w \notin STOPWORDS_ES)

\* unigrams followed by bigrams, as the analyzer emits them
Terms(doc) ==
  LET tk == Tokens(doc)
  IN tk \o [i \in 1..(IF Len(tk) > 0 THEN Len(tk) - 1 ELSE 0) |->
              tk[i] \o " " \o tk[i + 1]]

\* the analyzer applied to every document of the corpus, in order
RECURSIVE Analyze(_)
Analyze(corpus) ==
  IF corpus = <<>> THEN <<>>
  ELSE <<Terms(Head(corpus))>> \o Analyze(Tail(corpus))

TermSet(terms) == {terms[i] : i \in 1..Len(terms)}

\* the fitted vocabulary: every term of every analyzed document
Vocabulary(analyzed) == UNION {TermSet(analyzed[i]) : i \in 1..Len(analyzed)}

\* the terms of the corpus in the order the vectorizer meets them: document
\* after document
RECURSIVE Flat(_)
Flat(analyzed) ==
  IF analyzed = <<>> THEN <<>> ELSE Head(analyzed) \o Flat(Tail(analyzed))

\* The terms of a document in the order its row stores them.  The vectorizer
\* numbers a term when it first meets it and sorts each row by that number;
\* the later renumbering of the features by sorted term leaves the stored
\* order of a row as it is.
StoredOrder(terms, analyzed) ==
  LET all == Flat(analyzed)
      P == {CHOOSE i \in 1..Len(all) : all[i] = t /\ \A j \in 1..(i - 1) : all[j] # t :
              t \in TermSet(terms)}
  IN [k \in 1..Cardinality(P) |->
        all[CHOOSE p \in P : Cardinality({q \in P : q < p}) = k - 1]]

\* term frequency of term in an analyzed document
Tf(term, terms) == Cardinality({i \in 1..Len(terms) : terms[i] = term})

\* number of documents of the corpus holding term
DocFreq(term, analyzed) ==
  Cardinality({i \in 1..Len(analyzed) : term \in TermSet(analyzed[i])})

\* the double np.log((1 + n) / (1 + df)) + 1.0 as <<hi, lo, e>>, at
\* [1 + n][1 + df] for 0 <= df <= n <= 23
IdfTable ==
  <<
    << <<67108864, 0, -52>> >>,
    << <<113625183, 58531064, -52>>, <<67108864, 0, -52>> >>,
    << <<70417743, 22446470, -51>>, <<94319166, 53470739, -52>>,
       <<67108864, 0, -52>> >>,
    << <<80070751, 58531064, -51>>, <<113625183, 58531064, -52>>,
       <<86414881, 5060324, -52>>, <<67108864, 0, -52>> >>,
    << <<87558206, 66504346, -51>>, <<128600094, 7368764, -52>>,
       <<101389791, 21006889, -52>>, <<82083774, 15946564, -52>>,
       <<67108864, 0, -52>> >>,
    << <<93675903, 18157569, -51>>, <<70417743, 22446470, -51>>,
       <<113625183, 58531064, -52>>, <<94319166, 53470739, -52>>,
       <<79344256, 37524175, -52>>, <<67108864, 0, -52>> >>,
    << <<98848341, 51981612, -51>>, <<75590181, 56270512, -51>>,
       <<123970060, 59070285, -52>>, <<104664043, 54009960, -52>>,
       <<89689133, 38063396, -52>>, <<77453741, 539221, -52>>,
       <<67108864, 0, -52>> >>,
    << <<103328911, 54242163, -51>>, <<80070751, 58531064, -51>>,
       <<132931200, 63591388, -52>>, <<113625183, 58531064, -52>>,
       <<98650273, 42584500, -52>>, <<86414881, 5060324, -52>>,
       <<76070004, 4521103, -52>>, <<67108864, 0, -52>> >>,
    << <<107281054, 44892939, -51>>, <<84022894, 49181839, -51>>,
       <<70417743, 22446470, -51>>, <<121529469, 39832614, -52>>,
       <<106554559, 23886050, -52>>, <<94319166, 53470739, -52>>,
       <<83974289, 52931518, -52>>, <<75013149, 48410414, -52>>,
       <<67108864, 0, -52>> >>,
    << <<110816366, 62215446, -51>>, <<87558206, 66504346, -51>>,
       <<73953055, 39768976, -51>>, <<128600094, 7368764, -52>>,
       <<113625183, 58531064, -52>>, <<101389791, 21006889, -52>>,
       <<91044914, 20467668, -52>>, <<82083774, 15946564, -52>>,
       <<74179488, 34645014, -52>>, <<67108864, 0, -52>> >>,
    << <<114014445, 58668876, -51>>, <<90756285, 62957776, -51>>,
       <<77151134, 36222406, -51>>, <<67498126, 137812, -51>>,
       <<120021341, 51437924, -52>>, <<107785949, 13913749, -52>>,
       <<97441072, 13374528, -52>>, <<88479932, 8853424, -52>>,
       <<80575646, 27551875, -52>>, <<73505021, 60015725, -52>>,
       <<67108864, 0, -52>> >>,
    << <<116934063, 13868669, -51>>, <<93675903, 18157569, -51>>,
       <<80070751, 58531064, -51>>, <<70417743, 22446470, -51>>,
       <<125860576, 28946374, -52>>, <<113625183, 58531064, -52>>,
       <<103280306, 57991842, -52>>, <<94319166, 53470739, -52>>,
       <<86414881, 5060324, -52>>, <<79344256, 37524175, -52>>,
       <<72948098, 44617314, -52>>, <<67108864, 0, -52>> >>,
    << <<119619850, 53578833, -51>>, <<96361690, 57867733, -51>>,
       <<82756539, 31132364, -51>>, <<73103530, 62156634, -51>>,
       <<131232151, 41257838, -52>>, <<118996759, 3733664, -52>>,
       <<108651882, 3194443, -52>>, <<99690741, 65782203, -52>>,
       <<91786456, 17371789, -52>>, <<84715831, 49835639, -52>>,
       <<78319673, 56928779, -52>>, <<72480439, 12311464, -52>>,
       <<67108864, 0, -52>> >>,
    << <<122106501, 47692711, -51>>, <<98848341, 51981612, -51>>,
       <<85243190, 25246242, -51>>, <<75590181, 56270512, -51>>,
       <<68102726, 48297230, -51>>, <<123970060, 59070285, -52>>,
       <<113625183, 58531064, -52>>, <<104664043, 54009960, -52>>,
       <<96759758, 5599546, -52>>, <<89689133, 38063396, -52>>,
       <<83292975, 45156535, -52>>, <<77453741, 539221, -52>>,
       <<72082165, 55336621, -52>>, <<67108864, 0, -52>> >>,
    << <<124421518, 21841951, -51>>, <<101163358, 26130851, -51>>,
       <<87558206, 66504346, -51>>, <<77905198, 30419752, -51>>,
       <<70417743, 22446470, -51>>, <<128600094, 7368764, -52>>,
       <<118255217, 6829542, -52>>, <<109294077, 2308439, -52>>,
       <<101389791, 21006889, -52>>, <<94319166, 53470739, -52>>,
       <<87923008, 60563878, -52>>, <<82083774, 15946564, -52>>,
       <<76712199, 3635100, -52>>, <<71738897, 15407343, -52>>,
       <<67108864, 0, -52>> >>,
    << <<126587071, 49953263, -51>>, <<103328911, 54242163, -51>>,
       <<89723760, 27506794, -51>>, <<80070751, 58531064, -51>>,
       <<72583296, 50557782, -51>>, <<132931200, 63591388, -52>>,
       <<122586323, 63052167, -52>>, <<113625183, 58531064, -52>>,
       <<105720898, 10120649, -52>>, <<98650273, 42584500, -52>>,
       <<92254115, 49677639, -52>>, <<86414881, 5060324, -52>>,
       <<81043305, 59857725, -52>>, <<76070004, 4521103, -52>>,
       <<71439970, 56222624, -52>>, <<67108864, 0, -52>> >>,
    << <<128621296, 33193850, -51>>, <<105363136, 37482750, -51>>,
       <<91757985, 10747380, -51>>, <<82104976, 41771650, -51>>,
       <<74617521, 33798368, -51>>, <<68499825, 15036281, -51>>,
       <<126654773, 29533340, -52>>, <<117693633, 25012237, -52>>,
       <<109789347, 43710686, -52>>, <<102718723, 9065672, -52>>,
       <<96322565, 16158812, -52>>, <<90483330, 38650362, -52>>,
       <<85111755, 26338898, -52>>, <<80138453, 38111140, -52>>,
       <<75508420, 22703798, -52>>, <<71177313, 33590037, -52>>,
       <<67108864, 0, -52>> >>,
    << <<130539214, 40604038, -51>>, <<107281054, 44892939, -51>>,
       <<93675903, 18157569, -51>>, <<84022894, 49181839, -51>>,
       <<76535439, 41208556, -51>>, <<70417743, 22446470, -51>>,
       <<130490609, 44353718, -52>>, <<121529469, 39832614, -52>>,
       <<113625183, 58531064, -52>>, <<106554559, 23886050, -52>>,
       <<100158401, 30979190, -52>>, <<94319166, 53470739, -52>>,
       <<88947591, 41159275, -52>>, <<83974289, 52931518, -52>>,
       <<79344256, 37524175, -52>>, <<75013149, 48410414, -52>>,
       <<70944700, 14820377, -52>>, <<67108864, 0, -52>> >>,
    << <<132353409, 33862444, -51>>, <<109095249, 38151345, -51>>,
       <<95490098, 11415975, -51>>, <<85837089, 42440245, -51>>,
       <<78349634, 34466962, -51>>, <<72231938, 15704875, -51>>,
       <<134118999, 30870530, -52>>, <<125157859, 26349426, -52>>,
       <<117253573, 45047876, -52>>, <<110182949, 10402862, -52>>,
       <<103786791, 17496002, -52>>, <<97947556, 39987551, -52>>,
       <<92575981, 27676087, -52>>, <<87602679, 39448330, -52>>,
       <<82972646, 24040987, -52>>, <<78641539, 34927226, -52>>,
       <<74573090, 1337189, -52>>, <<70737253, 53625676, -52>>,
       <<67108864, 0, -52>> >>,
    << <<134074526, 57926545, -51>>, <<110816366, 62215446, -51>>,
       <<97211215, 35480076, -51>>, <<87558206, 66504346, -51>>,
       <<80070751, 58531064, -51>>, <<73953055, 39768976, -51>>,
       <<68780617, 5944934, -51>>, <<128600094, 7368764, -52>>,
       <<120695808, 26067214, -52>>, <<113625183, 58531064, -52>>,
       <<107229025, 65624203, -52>>, <<101389791, 21006889, -52>>,
       <<96018216, 8695425, -52>>, <<91044914, 20467668, -52>>,
       <<86414881, 5060324, -52>>, <<82083774, 15946564, -52>>,
       <<78015324, 49465391, -52>>, <<74179488, 34645014, -52>>,
       <<70551098, 48128202, -52>>, <<67108864, 0, -52>> >>,
    << <<67855826, 37214040, -50>>, <<112453493, 11608117, -51>>,
       <<98848341, 51981612, -51>>, <<89195333, 15897018, -51>>,
       <<81707878, 7923736, -51>>, <<75590181, 56270512, -51>>,
       <<70417743, 22446470, -51>>, <<131874346, 40371835, -52>>,
       <<123970060, 59070285, -52>>, <<116899436, 24425271, -52>>,
       <<110503278, 31518410, -52>>, <<104664043, 54009960, -52>>,
       <<99292468, 41698496, -52>>, <<94319166, 53470739, -52>>,
       <<89689133, 38063396, -52>>, <<85358026, 48949636, -52>>,
       <<81289577, 15359598, -52>>, <<77453741, 539221, -52>>,
       <<73825351, 14022409, -52>>, <<70383116, 33003072, -52>>,
       <<67108864, 0, -52>> >>,
    << <<68636302, 60744420, -50>>, <<114014445, 58668876, -51>>,
       <<100409294, 31933506, -51>>, <<90756285, 62957776, -51>>,
       <<83268830, 54984494, -51>>, <<77151134, 36222406, -51>>,
       <<71978696, 2398364, -51>>, <<67498126, 137812, -51>>,
       <<127091966, 18974074, -52>>, <<120021341, 51437924, -52>>,
       <<113625183, 58531064, -52>>, <<107785949, 13913749, -52>>,
       <<102414374, 1602285, -52>>, <<97441072, 13374528, -52>>,
       <<92811038, 65076049, -52>>, <<88479932, 8853424, -52>>,
       <<84411482, 42372252, -52>>, <<80575646, 27551875, -52>>,
       <<76947256, 41035062, -52>>, <<73505021, 60015725, -52>>,
       <<70230769, 27012653, -52>>, <<67108864, 0, -52>> >>,
    << <<69382079, 48814584, -50>>, <<115505999, 34809204, -51>>,
       <<101900848, 8073835, -51>>, <<92247839, 39098104, -51>>,
       <<84760384, 31124822, -51>>, <<78642688, 12362735, -51>>,
       <<73470249, 45647556, -51>>, <<68989679, 43387004, -51>>,
       <<130075073, 38363594, -52>>, <<123004449, 3718580, -52>>,
       <<116608291, 10811720, -52>>, <<110769056, 33303270, -52>>,
       <<105397481, 20991806, -52>>, <<100424179, 32764049, -52>>,
       <<95794146, 17356706, -52>>, <<91463039, 28242946, -52>>,
       <<87394589, 61761773, -52>>, <<83558753, 46941395, -52>>,
       <<79930363, 60424583, -52>>, <<76488129, 12296381, -52>>,
       <<73213876, 46402175, -52>>, <<70091971, 19389521, -52>>,
       <<67108864, 0, -52>> >>,
    << <<70096111, 38344316, -50>>, <<116934063, 13868669, -51>>,
       <<103328911, 54242163, -51>>, <<93675903, 18157569, -51>>,
       <<86188448, 10184287, -51>>, <<80070751, 58531064, -51>>,
       <<74898313, 24707021, -51>>, <<70417743, 22446470, -51>>,
       <<132931200, 63591388, -52>>, <<125860576, 28946374, -52>>,
       <<119464418, 36039514, -52>>, <<113625183, 58531064, -52>>,
       <<108253608, 46219600, -52>>, <<103280306, 57991842, -52>>,
       <<98650273, 42584500, -52>>, <<94319166, 53470739, -52>>,
       <<90250717, 19880702, -52>>, <<86414881, 5060324, -52>>,
       <<82786491, 18543512, -52>>, <<79344256, 37524175, -52>>,
       <<76070004, 4521103, -52>>, <<72948098, 44617314, -52>>,
       <<69964991, 25227793, -52>>, <<67108864, 0, -52>> >>
  >>

\* smooth idf of a term
Idf(term, analyzed) ==
  LET d == IdfTable[1 + Len(analyzed)][1 + DocFreq(term, analyzed)]
  IN [m |-> <<d[1], d[2]>>, e |-> d[3]]

\* the entries [t, x] of the terms in order: weight tf * idf of term t
Weighted(order, terms, analyzed) ==
  [k \in 1..Len(order) |->
     [t |-> order[k],
      x |-> FMul(IntDouble(Tf(order[k], terms)), Idf(order[k], analyzed))]]

\* one row of the tf-idf matrix, before its l2 normalisation: the entries of
\* the document's terms in stored order
TfidfRow(terms, analyzed) == Weighted(StoredOrder(terms, analyzed), terms, analyzed)

\* sum += x * x over the first k entries of a row, from 0.0
RECURSIVE SumSquares(_, _)
SumSquares(row, k) ==
  IF k = 0 THEN Zero
  ELSE FAdd(SumSquares(row, k - 1), FMul(row[k].x, row[k].x))

\* every entry of a row divided by norm; a row of norm 0 is left as it is
RECURSIVE Divided(_, _)
Divided(row, norm) ==
  IF row = <<>> \/ IsZero(norm) THEN row
  ELSE <<[t |-> Head(row).t, x |-> FDiv(Head(row).x, norm)]>> \o Divided(Tail(row), norm)

\* sklearn.preprocessing.normalize(norm="l2") of one row
normalize(row) == Divided(row, FSqrt(SumSquares(row, Len(row))))

RECURSIVE NormalizedRows(_)
NormalizedRows(X) ==
  IF X = <<>> THEN <<>> ELSE <<normalize(Head(X))>> \o NormalizedRows(Tail(X))

\* sum += a * b over the first k entries of row a that row b holds, from 0.0
RECURSIVE Dot(_, _, _)
Dot(a, b, k) ==
  IF k = 0 THEN Zero
  ELSE IF \E m \in 1..Len(b) : b[m].t = a[k].t
  THEN FAdd(Dot(a, b, k - 1),
            FMul(a[k].x, b[CHOOSE m \in 1..Len(b) : b[m].t = a[k].t].x))
  ELSE Dot(a, b, k - 1)

\* cosine of two normalised rows: their dot product
Cosine(a, b) == Dot(a, b, Len(a))

\* A document list may hold a missing value (a cell that is no string) when
\* the column conversion kept it: the vectorizer rejects such a document.
IsText(d) == d.k = "str"

RECURSIVE Texts(_)
Texts(cells) ==
  IF cells = <<>> THEN <<>> ELSE <<Head(cells).s>> \o Texts(Tail(cells))

\* the normalised tf-idf rows of the first k documents
RECURSIVE TfidfRows(_, _)
TfidfRows(analyzed, k) ==
  IF k = 0 THEN <<>>
  ELSE Append(TfidfRows(analyzed, k - 1), normalize(TfidfRow(analyzed[k], analyzed)))

\* X_obj = X[:n_obj, :] and X_act = X[n_obj:, :]
SplitRows(X, n_obj) ==
  [raised |-> FALSE, X_obj |-> SubSeq(X, 1, n_obj), X_act |-> SubSeq(X, n_obj + 1, Len(X))]

\* build_tfidf_model: [raised, X_obj, X_act]; fit_transform raises ValueError
\* on a document that is no string and on an empty vocabulary
build_tfidf_model(textos_objetivos, textos_actividades) ==
  LET corpus == textos_objetivos \o textos_actividades
      n_obj == Len(textos_objetivos)
  IN IF \E i \in 1..Len(corpus) : ~IsText(corpus[i])
     THEN [raised |-> TRUE, X_obj |-> <<>>, X_act |-> <<>>]
     ELSE LET analyzed == Analyze(Texts(corpus))
          IN IF Vocabulary(analyzed) = {}
             THEN [raised |-> TRUE, X_obj |-> <<>>, X_act |-> <<>>]
             ELSE SplitRows(TfidfRows(analyzed, Len(corpus)), n_obj)

\* one row of the similarity matrix: the cosines of row a and the rows of B
RECURSIVE CosineRow(_, _)
CosineRow(a, B) ==
  IF B = <<>> THEN <<>> ELSE <<Cosine(a, Head(B))>> \o CosineRow(a, Tail(B))

RECURSIVE CosineRows(_, _)
CosineRows(A, B) ==
  IF A = <<>> THEN <<>> ELSE <<CosineRow(Head(A), B)>> \o CosineRows(Tail(A), B)

\* sim_matrix[i][j] = cosine of activity row i and objective row j; both
\* matrices are normalised again before the product
cosine_similarity(X_act, X_obj) == CosineRows(NormalizedRows(X_act), NormalizedRows(X_obj))

(***************************************************************************)
(* Tables.  A table is [cols, rows]: the set of its column names and the   *)
(* sequence of its rows, each row a function from cols to cells.           *)
(***************************************************************************)
Column(t, c) == [i \in 1..Len(t.rows) |-> t.rows[i][c]]

\* t[c] = values : adds column c, or replaces it when t already has one
SetColumn(t, c, values) ==
  [cols |-> t.cols \cup {c},
   rows |-> [i \in 1..Len(t.rows) |->
               [x \in t.cols \cup {c} |-> IF x = c THEN values[i] ELSE t.rows[i][x]]]]

\* df.copy(): a table of its own, sharing nothing with the caller's
CopyTable(t) == [tbl |-> t, shared |-> FALSE]

\* a missing value equals a missing value when rows are compared
SameCell(a, b) == (IsNull(a) /\ IsNull(b)) \/ a = b

\* DataFrame.drop_duplicates over (codigo, texto) pairs: first occurrences
RECURSIVE DropDuplicates(_, _)
DropDuplicates(pairs, kept) ==
  IF pairs = <<>> THEN kept
  ELSE LET p == Head(pairs)
           seen == \E i \in 1..Len(kept) :
                     SameCell(kept[i][1], p[1]) /\ SameCell(kept[i][2], p[2])
       IN DropDuplicates(Tail(pairs), IF seen THEN kept ELSE Append(kept, p))

\* a column of Timestamps and missing values has the datetime dtype
IsDatetimeColumn(col) ==
  Len(col) > 0 /\ \A i \in 1..Len(col) : col[i].k \in {"date", "nat"}

\* Series.astype(str).  A datetime column at midnight is written as dates;
\* a missing value becomes the text of its repr ("nan", "None", "NaT"), or
\* stays missing when the installed pandas keeps missing values in string
\* columns (kept).
AstypeStr(col, kept) ==
  [i \in 1..Len(col) |->
     IF IsNull(col[i]) THEN (IF kept THEN NaN ELSE StrCell(PyStr(col[i])))
     ELSE IF col[i].k = "date" /\ IsDatetimeColumn(col) THEN StrCell(col[i].s)
     ELSE StrCell(PyStr(col[i]))]

\* Series.fillna("")
Fillna(col) == [i \in 1..Len(col) |-> IF IsNull(col[i]) THEN StrCell("") ELSE col[i]]

\* the enriched text without the detail
EnrichedTextsNoDetail(actividad, detalle, kept) ==
  LET a == AstypeStr(Fillna(actividad), kept)
  IN [i \in 1..Len(a) |-> StrCell(a[i].s \o " ")]

\* actividad + " " + detalle, row by row
EnrichedTexts(actividad, detalle, kept) ==
  LET a == AstypeStr(Fillna(actividad), kept)
      d == AstypeStr(Fillna(detalle), kept)
  IN [i \in 1..Len(a) |-> StrCell(a[i].s \o " " \o d[i].s)]

\* idx_by_codigo = {c: i for i, c in enumerate(codigos)}: the last position wins
InCatalog(codigos, codigo) == \E j \in 1..Len(codigos) : codigos[j] = codigo

IdxByCodigo(codigos, codigo) ==
  CHOOSE j \in 1..Len(codigos) :
    /\ codigos[j] = codigo
    /\ \A m \in 1..Len(codigos) : codigos[m] = codigo => m <= j

MaxOf(sims) == CHOOSE x \in {sims[j] : j \in 1..Len(sims)} :
                 \A j \in 1..Len(sims) : FGeq(x, sims[j])

\* the orders of the positions in left by descending similarity: any position
\* of the largest similarity first, then the others likewise
RECURSIVE Descending(_, _)
Descending(sims, left) ==
  IF left = {} THEN {<<>>}
  ELSE LET first == {j \in left : \A m \in left : FGeq(sims[j], sims[m])}
       IN UNION {{<<j>> \o rest : rest \in Descending(sims, left \ {j})} : j \in first}

\* (-sims).argsort(): a permutation of the positions by descending similarity.
\* The default sort kind is not stable, so equal similarities may come out in
\* any order.
Argsort(sims) == Descending(sims, 1..Len(sims))

\* np.where(order == j_sel)[0][0] + 1
RankIn(order, j_sel) == CHOOSE r \in 1..Len(order) : order[r] = j_sel

(***************************************************************************)
(* src/utils.py : compute_consistency_for_df, in four steps                *)
(*   SimFit        lines 107-126  copy, catalog, enriched texts, model     *)
(*   SimRowAbsent  lines 136-146  a row whose code is not in the catalog   *)
(*   SimRowScored  lines 136-165  a row scored against the catalog         *)
(*   SimReturn     lines 167-173  the five result columns                  *)
(***************************************************************************)
ColCodigo == "Código objetivo"
ColObjetivo == "Objetivo específico"
ColActividad == "Actividad relacionada"
ColDetalle == "Detalle actividad"
ColConsistencia == "Consistencia (%)"
ColMasParecido == "Objetivo_más_parecido"
ColSimElegido == "Similitud_obj_elegido"
ColSimMejor == "Similitud_mejor_obj"
ColRank == "Rank_obj_elegido"
ColNivel == "Nivel de consistencia"

NoTable == [cols |-> {}, rows |-> <<>>]
Idle == [step |-> "idle"]
Raised(e) == [step |-> "raised", err |-> e]

\* the catalog of unique objectives: (codigo, texto) pairs of the table
Catalog(t, col_obj_codigo, col_obj_texto) ==
  DropDuplicates([i \in 1..Len(t.rows) |->
                    <<t.rows[i][col_obj_codigo], t.rows[i][col_obj_texto]>>], <<>>)

CatalogCodigos(t, col_obj_codigo, col_obj_texto, kept) ==
  LET catalog == Catalog(t, col_obj_codigo, col_obj_texto)
  IN AstypeStr([j \in 1..Len(catalog) |-> catalog[j][1]], kept)

CatalogTextos(t, col_obj_codigo, col_obj_texto, kept) ==
  LET catalog == Catalog(t, col_obj_codigo, col_obj_texto)
  IN AstypeStr([j \in 1..Len(catalog) |-> catalog[j][2]], kept)

\* the state of the call at the head of its loop, once the model is fitted,
\* or the error the fitting raised
LoopStart(work, codigos, model) ==
  IF model.raised THEN Raised("ValueError")
  ELSE [step |-> "loop",
        df_work |-> work.tbl,
        shared |-> work.shared,
        codigos |-> codigos,
        sim_matrix |-> cosine_similarity(model.X_act, model.X_obj),
        i |-> 1,
        results |-> <<>>]

\* the call up to its loop
FitWork(t, col_obj_codigo, col_obj_texto, col_actividad, col_detalle, kept) ==
  IF ~({col_obj_codigo, col_obj_texto, col_actividad, col_detalle} \subseteq t.cols)
  THEN Raised("KeyError")
  ELSE LET work == CopyTable(t)
           codigos == CatalogCodigos(work.tbl, col_obj_codigo, col_obj_texto, kept)
           textos_obj == CatalogTextos(work.tbl, col_obj_codigo, col_obj_texto, kept)
           textos_act == EnrichedTexts(Column(work.tbl, col_actividad),
                                       Column(work.tbl, col_detalle), kept)
       IN LoopStart(work, codigos, build_tfidf_model(textos_obj, textos_act))

\* codigo_elegido = str(df_work.at[i, col_obj_codigo])
CodigoElegido(t, i, col_obj_codigo) == StrCell(PyStr(t.rows[i][col_obj_codigo]))

\* the absent-code branch left out: the row is scored as a row without any
\* similarity, which score_consistency calls vague
AbsentResultVague ==
  [score |-> NumCell(score_consistency(Zero, Zero, 1)), best |-> None,
   sim_sel |-> FloatCell(Zero), sim_best |-> FloatCell(Zero), rank |-> None]

\* what the loop appends for a row whose code is not in the catalog
AbsentResult ==
  [score |-> NumCell(0), best |-> None, sim_sel |-> FloatCell(Zero),
   sim_best |-> FloatCell(Zero), rank |-> None]

\* int(100 * x) for a double 0 <= x <= 1, up to the rounding of the product
Percent(x) == Cardinality({p \in 1..100 : FGeq(x, Double(p, 100))})

\* a scored row reporting the similarity itself, as a percentage, for its score
ScoredResultRaw(codigos, sims, j_sel, order) ==
  LET sim_sel == sims[j_sel]
      sim_best == MaxOf(sims)
      rank_sel == RankIn(order, j_sel)
  IN [score |-> NumCell(Percent(sim_sel)),
      best |-> codigos[order[1]],
      sim_sel |-> FloatCell(sim_sel),
      sim_best |-> FloatCell(sim_best),
      rank |-> NumCell(rank_sel)]

\* what the loop appends for a row scored against the catalog
ScoredResult(codigos, sims, j_sel, order) ==
  LET sim_sel == sims[j_sel]
      sim_best == MaxOf(sims)
      rank_sel == RankIn(order, j_sel)
  IN [score |-> NumCell(score_consistency(sim_sel, sim_best, rank_sel)),
      best |-> codigos[order[1]],
      sim_sel |-> FloatCell(sim_sel),
      sim_best |-> FloatCell(sim_best),
      rank |-> NumCell(rank_sel)]

\* The column pandas makes of rank_list: a list of ranks and None is a
\* float64 column, every rank a float and every None NaN; a list of ranks
\* only is a column of ints, a list of None only a column of None.
RankColumn(ranks) ==
  IF /\ \E i \in 1..Len(ranks) : ranks[i].k = "num"
     /\ \E i \in 1..Len(ranks) : ranks[i].k = "none"
  THEN [i \in 1..Len(ranks) |->
          IF ranks[i].k = "num" THEN FloatCell(IntDouble(ranks[i].n)) ELSE NaN]
  ELSE ranks

\* The column pandas makes of best_codes.  Where string columns keep their
\* missing values (kept) a list holding a string becomes a string column,
\* whose missing values are NaN; a list of NaN and None that holds a NaN
\* becomes a float64 column of NaN; any other list stays as it is.
BestColumn(codes, kept) ==
  IF \/ kept /\ \E i \in 1..Len(codes) : codes[i].k = "str"
     \/ /\ \E i \in 1..Len(codes) : codes[i] = NaN
        /\ \A i \in 1..Len(codes) : codes[i] \in {NaN, None}
  THEN [i \in 1..Len(codes) |-> IF IsNull(codes[i]) THEN NaN ELSE codes[i]]
  ELSE codes

\* df_work[...] = scores, best_codes, sim_selected_list, sim_best_list, rank_list
WithResults(t, results, kept) ==
  LET t1 == SetColumn(t, ColConsistencia, [i \in 1..Len(results) |-> results[i].score])
      t2 == SetColumn(t1, ColMasParecido,
                      BestColumn([i \in 1..Len(results) |-> results[i].best], kept))
      t3 == SetColumn(t2, ColSimElegido, [i \in 1..Len(results) |-> results[i].sim_sel])
      t4 == SetColumn(t3, ColSimMejor, [i \in 1..Len(results) |-> results[i].sim_best])
  IN SetColumn(t4, ColRank, RankColumn([i \in 1..Len(results) |-> results[i].rank]))

\* the caller's table after a call that worked on table t: its own, unless
\* the work table shared the caller's storage
CallerTable(shared, t) == IF shared THEN t ELSE df

\* the table of extracted activities goes to app.compute_consistency, the
\* Clean sheet to add_consistency_to_clean, any other table to
\* compute_consistency_for_df or add_consistency_to_resumen
IsCleanLayout(t) == "ID" \in t.cols /\ "Actividad única" \notin t.cols

SimFit ==
  /\ pc = "idle" /\ ~IsCleanLayout(df) /\ "Actividad única" \notin df.cols
  /\ op' = "sim"
  /\ wk' = FitWork(df, ColCodigo, ColObjetivo, ColActividad, ColDetalle, naKept)
  /\ pc' = wk'.step
  /\ UNCHANGED <<df, naKept, out, call>>

SimRowAbsent ==
  /\ op = "sim" /\ pc = "loop"
  /\ wk.i <= Len(wk.df_work.rows)
  /\ ~InCatalog(wk.codigos, CodigoElegido(wk.df_work, wk.i, ColCodigo))
  /\ wk' = [wk EXCEPT !.i = @ + 1, !.results = Append(@, AbsentResult)]
  /\ UNCHANGED <<df, naKept, op, pc, out, call>>

SimRowScored ==
  /\ op = "sim" /\ pc = "loop"
  /\ wk.i <= Len(wk.df_work.rows)
  /\ InCatalog(wk.codigos, CodigoElegido(wk.df_work, wk.i, ColCodigo))
  /\ LET j_sel == IdxByCodigo(wk.codigos, CodigoElegido(wk.df_work, wk.i, ColCodigo))
         sims == wk.sim_matrix[wk.i]
     IN \E order \in Argsort(sims) :
          wk' = [wk EXCEPT !.i = @ + 1,
                           !.results = Append(@, ScoredResult(wk.codigos, sims, j_sel, order))]
  /\ UNCHANGED <<df, naKept, op, pc, out, call>>

SimReturn ==
  /\ op = "sim" /\ pc = "loop"
  /\ wk.i > Len(wk.df_work.rows)
  /\ out' = WithResults(wk.df_work, wk.results, naKept)
  /\ df' = CallerTable(wk.shared, out')
  /\ pc' = "done"
  /\ UNCHANGED <<naKept, op, wk, call>>

(***************************************************************************)
(* src/consistency.py : add_consistency_to_clean (one step per objective   *)
(* 1..6) and add_consistency_to_resumen                                    *)
(***************************************************************************)
Digits == <<"1", "2", "3", "4", "5", "6">>
ColObjetivoN(g) == "Objetivo " \o Digits[g]
ColActividadN(g) == "Actividad Obj " \o Digits[g]
ColDetalleN(g) == "Detalle Obj " \o Digits[g]
ColConsistenciaN(g) == "Consistencia Obj " \o Digits[g] \o " (%)"
ColNivelN(g) == "Nivel Obj " \o Digits[g]

\* evaluate_consistency(row[col_obj], row[col_act])
\*   if str(row[col_act]).strip() != "" else 0.0
CleanScore(row, col_obj, col_act) ==
  IF Strip(PyStr(row[col_act])) # ""
  THEN evaluate_consistency(row[col_obj], row[col_act])
  ELSE 0

\* the two columns of objective g, from the columns of table t
WithCleanGroup(t, g) ==
  LET cons == [i \in 1..Len(t.rows) |->
                 NumCell(CleanScore(t.rows[i], ColObjetivoN(g), ColActividadN(g)))]
      t1 == SetColumn(t, ColConsistenciaN(g), cons)
  IN SetColumn(t1, ColNivelN(g), [i \in 1..Len(t.rows) |-> StrCell(Nivel(cons[i].n))])

\* the two columns of objective g when its input columns are missing
WithEmptyGroup(t, g) ==
  LET t1 == SetColumn(t, ColConsistenciaN(g), [i \in 1..Len(t.rows) |-> NumCell(0)])
  IN SetColumn(t1, ColNivelN(g), [i \in 1..Len(t.rows) |-> StrCell("")])

HasGroup(t, g) == ColObjetivoN(g) \in t.cols /\ ColActividadN(g) \in t.cols

CleanStart ==
  /\ pc = "idle" /\ IsCleanLayout(df)
  /\ op' = "clean"
  /\ LET work == CopyTable(df)
     IN wk' = [step |-> "loop", df_work |-> work.tbl, shared |-> work.shared, g |-> 1]
  /\ pc' = "loop"
  /\ UNCHANGED <<df, naKept, out, call>>

\* the group's columns exist: df[cons_col] = df.apply(...).  On a table without
\* rows apply tries the lambda on one row of NaN, gets a number and returns
\* an empty column, so the two columns are added as on any other table.
CleanGroupScored ==
  /\ op = "clean" /\ pc = "loop"
  /\ wk.g <= Len(Digits)
  /\ HasGroup(wk.df_work, wk.g)
  /\ wk' = [wk EXCEPT !.g = @ + 1, !.df_work = WithCleanGroup(@, wk.g)]
  /\ df' = CallerTable(wk.shared, wk'.df_work)
  /\ UNCHANGED <<naKept, op, pc, out, call>>

CleanGroupMissing ==
  /\ op = "clean" /\ pc = "loop"
  /\ wk.g <= Len(Digits)
  /\ ~HasGroup(wk.df_work, wk.g)
  /\ wk' = [wk EXCEPT !.g = @ + 1, !.df_work = WithEmptyGroup(@, wk.g)]
  /\ df' = CallerTable(wk.shared, wk'.df_work)
  /\ UNCHANGED <<naKept, op, pc, out, call>>

CleanReturn ==
  /\ op = "clean" /\ pc = "loop"
  /\ wk.g > Len(Digits)
  /\ out' = wk.df_work
  /\ pc' = "done"
  /\ UNCHANGED <<df, naKept, op, wk, call>>

\* add_consistency_to_resumen: the table it returns, or the error it raises.
\* On a table without rows DataFrame.apply(f, axis=1) tries f on one row of
\* NaN: f returns a number and apply an empty column, so the table comes
\* back without rows and with the two result columns.  Without the two
\* input columns row[...] raises KeyError: on a table with rows the call
\* raises it, on a table without rows apply returns the table itself, and
\* assigning that to one column raises ValueError unless it has one column.
ResumenWork(t) ==
  LET work == CopyTable(t)
      cons == [i \in 1..Len(t.rows) |->
                 NumCell(evaluate_consistency(t.rows[i][ColObjetivo],
                                              t.rows[i][ColActividad]))]
      t1 == SetColumn(work.tbl, ColConsistencia, cons)
  IN IF ~({ColObjetivo, ColActividad} \subseteq t.cols) /\ Len(t.rows) > 0
     THEN Raised("KeyError")
     ELSE IF ~({ColObjetivo, ColActividad} \subseteq t.cols) /\ Cardinality(t.cols) # 1
     THEN Raised("ValueError")
     ELSE [step |-> "done",
           shared |-> work.shared,
           df_work |-> SetColumn(t1, ColNivel,
                                 [i \in 1..Len(t.rows) |-> StrCell(Nivel(cons[i].n))])]

ResumenCall ==
  /\ pc = "idle" /\ ~IsCleanLayout(df) /\ "Actividad única" \notin df.cols
  /\ op' = "resumen"
  /\ wk' = ResumenWork(df)
  /\ pc' = wk'.step
  /\ out' = IF pc' = "done" THEN wk'.df_work ELSE out
  /\ df' = IF pc' = "done" THEN CallerTable(wk'.shared, out') ELSE df
  /\ UNCHANGED <<naKept, call>>

(***************************************************************************)
(* src/app.py : map_similarity_to_score and compute_consistency            *)
(***************************************************************************)
\* map_similarity_to_score: sim is a float cell, NaN or a double that is not
\* negative
map_similarity_to_score(sim) ==
  IF sim = NaN \/ IsZero(sim.x) THEN 0
  ELSE IF ~FGeq(sim.x, Hundredths[10]) THEN 0
  ELSE IF ~FGeq(sim.x, Hundredths[25]) THEN 10
  ELSE IF ~FGeq(sim.x, Hundredths[40]) THEN 30
  ELSE IF ~FGeq(sim.x, Hundredths[55]) THEN 50
  ELSE IF ~FGeq(sim.x, Hundredths[70]) THEN 70
  ELSE IF ~FGeq(sim.x, Hundredths[90]) THEN 90
  ELSE 100

\* compute_consistency: the error it raises.  It reads its three columns
\* (KeyError without one of them), then builds
\* TfidfVectorizer(ngram_range=(1, 2), stop_words="spanish") and fits it:
\* the vectorizer takes "english", a list or None for stop_words and fit
\* rejects any other string with ValueError, whatever the corpus.  The
\* lines that follow the fit (the cosine of each row, "Similitud",
\* "Consistencia (%)" = map_similarity_to_score) are never reached.
compute_consistency(t) ==
  IF ~({ColObjetivo, "Actividad única", ColDetalle} \subseteq t.cols)
  THEN Raised("KeyError")
  ELSE Raised("ValueError")

AppCall ==
  /\ pc = "idle" /\ "Actividad única" \in df.cols
  /\ op' = "app"
  /\ wk' = compute_consistency(df)
  /\ pc' = wk'.step
  /\ UNCHANGED <<df, naKept, out, call>>

\* the caller takes the result (or the error) and may call again
Return ==
  /\ pc \in {"done", "raised"}
  /\ pc' = "idle" /\ op' = "none" /\ wk' = Idle /\ out' = NoTable
  /\ UNCHANGED <<df, naKept, call>>

(***************************************************************************)
(* Inputs.  A table is cut from the sample rows below, in any order and    *)
(* with repetition, up to MaxRows rows, under one of the column layouts.   *)
(***************************************************************************)
MaxRows == 3

\* <<codigo, objetivo, actividad, detalle>>
SampleRows ==
  << <<StrCell("O1"), StrCell("Mejora del monitoreo"),
       StrCell("Realizar monitoreo"), StrCell("seguimiento anual")>>,
     <<StrCell("O2"), StrCell("Convenio de evaluación"),
       StrCell("Firmar convenio"), NaN>>,
     <<StrCell("O1"), StrCell("Curso de gestión"),
       StrCell(""), StrCell("evaluación")>>,
     <<StrCell("O3"), NaN, StrCell("nan"), StrCell("")>>,
     <<DateCell("2024-03-01"), StrCell("Plan anual"), None, StrCell("plan anual")>>,
     <<NaN, StrCell("Mejora del monitoreo"), StrCell("  "), StrCell("curso")>> >>

Layouts ==
  {"resumen", "sin_detalle", "con_consistencia", "clean", "clean_sin_actividad", "actividades"}

LayoutCols(layout) ==
  CASE layout = "resumen" -> {ColCodigo, ColObjetivo, ColActividad, ColDetalle}
    [] layout = "sin_detalle" -> {ColCodigo, ColObjetivo, ColActividad}
    [] layout = "con_consistencia" ->
         {ColCodigo, ColObjetivo, ColActividad, ColDetalle, ColConsistencia}
    [] layout = "clean" -> {"ID", ColObjetivoN(1), ColActividadN(1), ColDetalleN(1)}
    [] layout = "clean_sin_actividad" -> {"ID", ColObjetivoN(1), ColDetalleN(1)}
    [] layout = "actividades" ->
         {"ID", "Año", ColObjetivo, "Actividad única", ColDetalle}

\* the value a sample row holds in column c
SampleCell(r, c) ==
  CASE c \in {ColCodigo, "ID"} -> r[1]
    [] c \in {ColObjetivo, ColObjetivoN(1)} -> r[2]
    [] c \in {ColActividad, ColActividadN(1), "Actividad única"} -> r[3]
    [] c \in {ColDetalle, ColDetalleN(1)} -> r[4]
    [] c = ColConsistencia -> NumCell(50)
    [] c = "Año" -> NumCell(2024)

\* the dtypes pandas gives the columns of a table: in a column that holds
\* Timestamps and missing values only, the missing values are NaT
InferDtypes(t) ==
  [cols |-> t.cols,
   rows |-> [i \in 1..Len(t.rows) |->
      [c \in t.cols |->
         IF /\ IsNull(t.rows[i][c])
            /\ \E m \in 1..Len(t.rows) : t.rows[m][c].k = "date"
            /\ \A m \in 1..Len(t.rows) : t.rows[m][c].k = "date" \/ IsNull(t.rows[m][c])
         THEN NaT
         ELSE t.rows[i][c]]]]

MakeTable(layout, picks) ==
  InferDtypes(
    [cols |-> LayoutCols(layout),
     rows |-> [i \in 1..Len(picks) |->
                 [c \in LayoutCols(layout) |-> SampleCell(SampleRows[picks[i]], c)]]])

InputTables ==
  {MakeTable(layout, picks) :
     layout \in Layouts,
     picks \in UNION {[1..n -> 1..Len(SampleRows)] : n \in 0..MaxRows}}

NoCall == [fn |-> "none"]

Init ==
  /\ df \in InputTables
  /\ naKept \in BOOLEAN
  /\ op = "none"
  /\ pc = "idle"
  /\ wk = Idle
  /\ out = NoTable
  /\ call = NoCall

Next ==
  \/ SimFit
  \/ SimRowAbsent
  \/ SimRowScored
  \/ SimReturn
  \/ CleanStart
  \/ CleanGroupScored
  \/ CleanGroupMissing
  \/ CleanReturn
  \/ ResumenCall
  \/ AppCall
  \/ Return

Spec == Init /\ [][Next]_vars

(***************************************************************************)
(* The pure scoring functions on their own: a call takes its arguments     *)
(* from bounded sets and returns.                                          *)
(***************************************************************************)
MaxRank == 4

\* the double k / 10^6
Micro(k) == IF k = 0 THEN Zero ELSE Double(k, 1000000)

\* the largest double below a, for a > 0
Below(a) ==
  IF a.m = <<Limb, 0>> THEN [m |-> <<2 * Limb - 1, Limb - 1>>, e |-> a.e - 1]
  ELSE [m |-> WSub(a.m, <<0, 1>>), e |-> a.e]

\* similarities on a 0.025 grid, the values next to the thresholds of the
\* decision table, pairs whose exact quotient equals a ratio threshold
\* (0.08 / 0.2, 0.475 / 0.5, 0.899982 / 0.99998, ...), where the rounding of
\* the division decides the comparison, and the last double below each
\* similarity threshold
SimGrid ==
  {Micro(k * 25000) : k \in 0..40}
  \cup {Micro(k) : k \in {99999, 100001, 199999, 299999, 399999, 949999, 950001,
                          475001, 450001, 400001, 350001, 200001, 700001}}
  \cup {Micro(k) : k \in {80000, 140000, 160000, 240000, 270000, 360000, 380000,
                          499999, 899982, 999979}}
  \cup {Below(Hundredths[p]) : p \in {10, 20, 30, 40}}

\* a call of score_consistency on the grid, or of map_similarity_to_score on
\* the grid, the last double below each of its thresholds, and NaN
ScoreInit ==
  /\ call \in {[fn |-> "score_consistency", args |-> <<ss, sb, r>>, done |-> FALSE, ret |-> 0] :
                 ss \in SimGrid, sb \in SimGrid, r \in 1..MaxRank}
            \cup {[fn |-> "map_similarity_to_score", args |-> <<sim>>, done |-> FALSE,
                   ret |-> 0] :
                  sim \in {FloatCell(x) :
                             x \in SimGrid
                                   \cup {Below(Hundredths[p]) : p \in {25, 55, 70, 90}}}
                          \cup {NaN}}
  /\ df = NoTable /\ naKept = FALSE /\ op = "none" /\ pc = "idle"
  /\ wk = Idle /\ out = NoTable

ScoreCall ==
  /\ call.fn = "score_consistency" /\ ~call.done
  /\ call' = [call EXCEPT !.done = TRUE,
                          !.ret = score_consistency(call.args[1], call.args[2], call.args[3])]
  /\ UNCHANGED <<df, naKept, op, pc, wk, out>>

MapCall ==
  /\ call.fn = "map_similarity_to_score" /\ ~call.done
  /\ call' = [call EXCEPT !.done = TRUE, !.ret = map_similarity_to_score(call.args[1])]
  /\ UNCHANGED <<df, naKept, op, pc, wk, out>>

SpecScore == ScoreInit /\ [][ScoreCall \/ MapCall]_vars

KwObjectives ==
  {StrCell(""), StrCell("Mejora del monitoreo"), StrCell("Convenio de evaluación"),
   StrCell("Curso de GESTIÓN social"), StrCell("Plan anual"),
   StrCell("acuerdo acuerdo marco"), StrCell("Proyecto de extensión y reunión"),
   StrCell("Mejora de convenio y acuerdo"), StrCell("Organización"), NaN, None}

KwActivities ==
  {StrCell(""), StrCell("  "), StrCell(" \t   "), StrCell("Realizar monitoreo y evaluación"),
   StrCell("Acuerdo"), StrCell("curso de gestión social"), StrCell("Plan"),
   StrCell("plan anual de mejora"), StrCell("cánones"), StrCell("Crear"),
   StrCell("Reunión de comisión y proyecto"), StrCell("organizar la organización"),
   StrCell("Firmar convenio y acuerdo"), NaN, None}

\* a call of evaluate_consistency itself, or of the row function that
\* add_consistency_to_clean applies to a row holding the two texts
KwFns == {"evaluate_consistency", "add_consistency_to_clean.row"}

KwInit ==
  /\ call \in {[fn |-> f, args |-> <<o, a>>, done |-> FALSE, ret |-> 0, locals |-> <<>>] :
                 f \in KwFns, o \in KwObjectives, a \in KwActivities}
  /\ df = NoTable /\ naKept = FALSE /\ op = "none" /\ pc = "idle"
  /\ wk = Idle /\ out = NoTable

KwCall ==
  /\ call.fn = "evaluate_consistency" /\ ~call.done
  /\ call' = [call EXCEPT !.done = TRUE,
                          !.ret = evaluate_consistency(call.args[1], call.args[2]),
                          !.locals = ConsistencyLocals(call.args[1], call.args[2])]
  /\ UNCHANGED <<df, naKept, op, pc, wk, out>>

KwRowCall ==
  /\ call.fn = "add_consistency_to_clean.row" /\ ~call.done
  /\ LET row == [c \in {ColObjetivoN(1), ColActividadN(1)} |->
                   IF c = ColObjetivoN(1) THEN call.args[1] ELSE call.args[2]]
     IN call' = [call EXCEPT !.done = TRUE,
                             !.ret = CleanScore(row, ColObjetivoN(1), ColActividadN(1))]
  /\ UNCHANGED <<df, naKept, op, pc, wk, out>>

SpecKw == KwInit /\ [][KwCall \/ KwRowCall]_vars

(***************************************************************************)
(* Properties of score_consistency (SpecScore)                             *)
(***************************************************************************)
\* the decision table of the specification, one line per row, read from the
\* top: the value of the first row whose condition holds
DecisionTable(ss, sb, r) ==
  LET ratio == FDiv(ss, FAdd(sb, Epsilon))
      RatioGE(p) == FGeq(ratio, Hundredths[p])
      SimGE(p) == FGeq(ss, Hundredths[p])
      table == << [when |-> ~FGeq(sb, Hundredths[10]), score |-> 30],
                  [when |-> r = 1 /\ SimGE(40) /\ RatioGE(95), score |-> 100],
                  [when |-> r = 1 /\ SimGE(30) /\ RatioGE(90), score |-> 90],
                  [when |-> r = 1 /\ SimGE(20) /\ RatioGE(80), score |-> 70],
                  [when |-> r = 1, score |-> 50],
                  [when |-> r \in {2, 3} /\ RatioGE(70), score |-> 30],
                  [when |-> RatioGE(40), score |-> 10],
                  [when |-> TRUE, score |-> 0] >>
      first == CHOOSE i \in 1..Len(table) :
                 table[i].when /\ \A j \in 1..(i - 1) : ~table[j].when
  IN table[first].score

\* C1: for every (sim_selected, sim_best, rank_selected), score_consistency
\* returns the value of the first matching row of the decision table, with
\* ratio = sim_selected / (sim_best + 1e-6).
C1_DecisionTable ==
  (call.fn = "score_consistency" /\ call.done) =>
    call.ret = DecisionTable(call.args[1], call.args[2], call.args[3])

\* a chosen objective ranked second, close to the best one: the rank 2-3 row
\* is the first to match although the weak-relation row matches too
C1_Witness ==
  /\ call.fn = "score_consistency" /\ call.done
  /\ call.args = <<Micro(400000), Micro(500000), 2>>
  /\ call.ret = 30

(***************************************************************************)
(* Properties of evaluate_consistency (SpecKw)                             *)
(***************************************************************************)
OnlyWhitespace(t) == \A i \in 1..Len(t) : SubSeq(t, i, i) \in {" ", "\t", "\n"}

\* C4: an activity text that is empty or holds only whitespace scores 0.0,
\* whatever the objective text, in evaluate_consistency and in the row
\* function of add_consistency_to_clean.
C4_EmptyActivityScoresZero ==
  (call.fn \in KwFns /\ call.done /\ call.args[2].k = "str"
     /\ OnlyWhitespace(call.args[2].s)) => call.ret = 0

\* evaluate_consistency itself returned 0.0 for a whitespace activity longer
\* than three characters, under an objective with keywords
C4_Witness ==
  /\ call.fn = "evaluate_consistency" /\ call.done
  /\ call.args = <<StrCell("Mejora del monitoreo"), StrCell(" \t   ")>>
  /\ call.ret = 0

\* the positions, in the fixed order of thematic_groups, of the categories
\* with a keyword inside the lower-cased objective
MatchingGroups(obj) ==
  {g \in 1..Len(thematic_groups) :
     \E i \in 1..Len(thematic_groups[g].words) : Contains(obj, thematic_groups[g].words[i])}

CategoryOrder ==
  <<"calidad", "convenios", "docencia", "investigación", "extensión", "gestión">>

\* C7: the category of the objective is the first one, in the order calidad,
\* convenios, docencia, investigación, extensión, gestión, that has a keyword
\* inside the lower-cased objective, however many keywords of later categories
\* occur; with no such category the default category is assigned, it has no
\* keywords and the thematic sub-score is 0.0.
C7_FirstCategoryWins ==
  (call.fn = "evaluate_consistency" /\ call.done) =>
    LET hits == MatchingGroups(Lower(PyStr(call.args[1])))
    IN /\ hits # {} =>
            call.locals.category =
              CategoryOrder[CHOOSE g \in hits : \A h \in hits : g <= h]
       /\ hits = {} =>
            /\ call.locals.category \notin {CategoryOrder[g] : g \in 1..Len(CategoryOrder)}
            /\ GroupWords(call.locals.category) = <<>>
            /\ call.locals.thematic = 0

\* one keyword of calidad and two of convenios: calidad, the earlier, is kept
C7_Witness ==
  /\ call.fn = "evaluate_consistency" /\ call.done
  /\ call.args[1] = StrCell("Mejora de convenio y acuerdo")
  /\ call.args[2] = StrCell("Firmar convenio y acuerdo")
  /\ call.locals.category = "calidad"
  /\ call.locals.thematic = 0

\* how many entries of the list keywords occur in text
Occurrences(text, keywords) ==
  Cardinality({i \in 1..Len(keywords) : Contains(text, keywords[i])})

\* a count as twice its sub-score: >= 2 -> 1.0, 1 -> 0.5, 0 -> 0.0
Halves(count) == IF count >= 2 THEN 2 ELSE IF count = 1 THEN 1 ELSE 0

\* C8: evaluate_consistency returns
\* round((semantic * 0.40 + thematic * 0.40 + operational * 0.20) * 100, 1),
\* semantic and thematic counted over the objective's words longer than three
\* characters and over the category's keywords, operational 1.0 with an action
\* verb, 0.5 without one when the trimmed activity is longer than three
\* characters, else 0.0.  In tenths of a percent that is
\* 200 * (2 semantic) + 200 * (2 thematic) + 100 * (2 operational).
C8_WeightedScore ==
  (call.fn = "evaluate_consistency" /\ call.done) =>
    LET obj == Lower(PyStr(call.args[1]))
        act == Lower(PyStr(call.args[2]))
        words == SelectSeq(Split(obj), LAMBDA w : Len(w) > 3)
        hits == MatchingGroups(obj)
        catwords == IF hits = {} THEN <<>>
                    ELSE thematic_groups[CHOOSE g \in hits : \A h \in hits : g <= h].words
        verb == \E i \in 1..Len(action_verbs) : Contains(act, action_verbs[i])
        oper == IF verb THEN 2 ELSE IF Len(Strip(act)) > 3 THEN 1 ELSE 0
    IN call.ret = 200 * Halves(Occurrences(act, words))
                  + 200 * Halves(Occurrences(act, catwords))
                  + 100 * oper

\* one word of the objective, two keywords of its category and an action verb
C8_Witness ==
  /\ call.fn = "evaluate_consistency" /\ call.done
  /\ call.args = <<StrCell("Mejora del monitoreo"), StrCell("Realizar monitoreo y evaluación")>>
  /\ call.locals.semantic = 5 /\ call.locals.thematic = 10 /\ call.locals.operational = 10
  /\ call.ret = 800

(***************************************************************************)
(* Properties of the table scorers (Spec)                                  *)
(***************************************************************************)
Scale == {0, 10, 30, 50, 70, 90, 100}

SimRunning == op = "sim" /\ pc \in {"loop", "done"}

SimReturned == op = "sim" /\ pc = "done"

\* the call has fitted its model and is about to score its first row
SimFitted == op = "sim" /\ pc = "loop" /\ wk.i = 1

\* every result the loop can append for row i of the fitted call w
RowResults(w, i) ==
  LET cod == CodigoElegido(w.df_work, i, ColCodigo)
  IN IF ~InCatalog(w.codigos, cod) THEN {AbsentResult}
     ELSE {ScoredResult(w.codigos, w.sim_matrix[i], IdxByCodigo(w.codigos, cod), order) :
             order \in Argsort(w.sim_matrix[i])}

\* row i of the caller's table has a code that the catalog does not hold
AbsentRow(i) == ~InCatalog(wk.codigos, CodigoElegido(df, i, ColCodigo))

\* C2: every value written to "Consistencia (%)" by
\* compute_consistency_for_df, rows with an absent code included, is one of
\* 0, 10, 30, 50, 70, 90, 100.
C2_ScaleClosure ==
  SimRunning =>
    /\ \A i \in 1..Len(wk.results) :
         wk.results[i].score.k = "num" /\ wk.results[i].score.n \in Scale
    /\ pc = "done" =>
         \A i \in 1..Len(out.rows) :
           out.rows[i][ColConsistencia].k = "num" /\ out.rows[i][ColConsistencia].n \in Scale

\* a returned table with a row of absent code beside a row scored 100
C2_Witness ==
  /\ op = "sim" /\ pc = "done"
  /\ \E i, j \in 1..Len(out.rows) :
       /\ AbsentRow(i)
       /\ ~AbsentRow(j) /\ out.rows[j][ColConsistencia] = NumCell(100)

\* C3: a row whose chosen code is not in the catalog is emitted with score 0,
\* no rank, no best objective and both similarities 0; the call goes on to
\* return one row per input row, and every other row holds a result computed
\* from the model fitted on the whole table.
C3_AbsentCodeRow ==
  SimRunning =>
    /\ Len(wk.sim_matrix) = Len(df.rows)
    /\ \A i \in 1..Len(wk.results) :
         IF AbsentRow(i)
         THEN /\ wk.results[i].score = NumCell(0)
              /\ IsNull(wk.results[i].rank)
              /\ IsNull(wk.results[i].best)
              /\ wk.results[i].sim_sel = FloatCell(Zero)
              /\ wk.results[i].sim_best = FloatCell(Zero)
         ELSE /\ wk.results[i].rank.k = "num"
              /\ wk.results[i].sim_sel =
                   FloatCell(wk.sim_matrix[i][IdxByCodigo(wk.codigos,
                                                          CodigoElegido(df, i, ColCodigo))])
              /\ wk.results[i].sim_best = FloatCell(MaxOf(wk.sim_matrix[i]))
    /\ pc = "done" =>
         /\ Len(out.rows) = Len(df.rows)
         /\ \A i \in 1..Len(out.rows) :
              /\ out.rows[i][ColConsistencia] = wk.results[i].score
              /\ out.rows[i][ColSimElegido] = wk.results[i].sim_sel
              /\ out.rows[i][ColSimMejor] = wk.results[i].sim_best
              /\ IF AbsentRow(i)
                 THEN IsNull(out.rows[i][ColRank]) /\ IsNull(out.rows[i][ColMasParecido])
                 ELSE /\ out.rows[i][ColRank] \in
                           {wk.results[i].rank, FloatCell(IntDouble(wk.results[i].rank.n))}
                      /\ out.rows[i][ColMasParecido] = wk.results[i].best

\* a returned table whose first row has an absent code, and NaN for its rank
\* in the column of floats, and whose second row was scored with a similarity
\* above 0
C3_Witness ==
  /\ op = "sim" /\ pc = "done"
  /\ Len(out.rows) >= 2
  /\ AbsentRow(1) /\ out.rows[1][ColConsistencia] = NumCell(0) /\ out.rows[1][ColRank] = NaN
  /\ ~AbsentRow(2) /\ ~IsZero(out.rows[2][ColSimElegido].x)

TextCols ==
  {ColObjetivo, ColActividad, ColDetalle, ColObjetivoN(1), ColActividadN(1), ColDetalleN(1)}

\* table t with every missing text replaced by the empty string
FillNullTexts(t) ==
  [cols |-> t.cols,
   rows |-> [i \in 1..Len(t.rows) |->
               [c \in t.cols |-> IF c \in TextCols /\ IsNull(t.rows[i][c])
                                 THEN StrCell("") ELSE t.rows[i][c]]]]

FitOf(t) == FitWork(t, ColCodigo, ColObjetivo, ColActividad, ColDetalle, naKept)

\* C5: both scorers score a missing objective, activity or detail exactly as
\* the empty string, and never raise because of it: the outcome of a call is
\* an outcome of the same call on the table with "" in place of the missing
\* texts.
C5_NullScoredAsEmpty ==
  /\ SimReturned =>
       LET w == FitOf(FillNullTexts(df))
       IN /\ w.step = "loop"
          /\ \A i \in 1..Len(wk.results) : wk.results[i] \in RowResults(w, i)
  /\ (op = "sim" /\ pc = "raised") => FitOf(FillNullTexts(df)).step = "raised"
  /\ (op = "resumen" /\ pc = "done") =>
       \A i \in 1..Len(out.rows) :
         out.rows[i][ColConsistencia] =
           NumCell(evaluate_consistency(FillNullTexts(df).rows[i][ColObjetivo],
                                        FillNullTexts(df).rows[i][ColActividad]))
  /\ (op = "clean" /\ pc = "done" /\ HasGroup(df, 1)) =>
       \A i \in 1..Len(out.rows) :
         out.rows[i][ColConsistenciaN(1)] =
           NumCell(CleanScore(FillNullTexts(df).rows[i], ColObjetivoN(1), ColActividadN(1)))

SimColsPresent == {ColCodigo, ColObjetivo, ColActividad, ColDetalle} \subseteq df.cols

\* C6: compute_consistency_for_df on a table without rows (hence an empty
\* catalog and an empty corpus) does not raise: it returns a table without
\* rows.
C6_EmptyBatchCompletes ==
  (op = "sim" /\ SimColsPresent /\ Len(df.rows) = 0) =>
    /\ pc # "raised"
    /\ pc = "done" => Len(out.rows) = 0

\* table t with the detail joined to the activity and the detail left empty
MergeDetail(t, col_act, col_det) ==
  [cols |-> t.cols,
   rows |-> [i \in 1..Len(t.rows) |->
      [c \in t.cols |->
         IF c = col_act /\ col_det \in t.cols
         THEN StrCell(Fillna(<<t.rows[i][col_act]>>)[1].s \o " "
                      \o Fillna(<<t.rows[i][col_det]>>)[1].s)
         ELSE IF c = col_det THEN StrCell("")
         ELSE t.rows[i][c]]]]

\* table t with its detail column emptied
BlankDetail(t, col_det) ==
  [cols |-> t.cols,
   rows |-> [i \in 1..Len(t.rows) |->
               [c \in t.cols |-> IF c = col_det THEN StrCell("") ELSE t.rows[i][c]]]]

\* the statement of C9 as it stands: under every scorer the score of a row
\* is the score of (objective, activity joined with detail)
C9_DetailAlwaysScored ==
  /\ SimReturned =>
       LET w == FitOf(MergeDetail(df, ColActividad, ColDetalle))
       IN \A i \in 1..Len(wk.results) : wk.results[i] \in RowResults(w, i)
  /\ (op = "resumen" /\ pc = "done") =>
       \A i \in 1..Len(out.rows) :
         out.rows[i][ColConsistencia] =
           NumCell(evaluate_consistency(
                     df.rows[i][ColObjetivo],
                     MergeDetail(df, ColActividad, ColDetalle).rows[i][ColActividad]))
  /\ (op = "clean" /\ pc = "done" /\ HasGroup(df, 1)) =>
       \A i \in 1..Len(out.rows) :
         out.rows[i][ColConsistenciaN(1)] =
           NumCell(CleanScore(MergeDetail(df, ColActividadN(1), ColDetalleN(1)).rows[i],
                              ColObjetivoN(1), ColActividadN(1)))

\* C9, amended: compute_consistency_for_df scores, for every row, the
\* activity and the detail joined by one space (a missing one as ""): the
\* catalog and the similarity matrix it fits are those of the table with the
\* detail moved into the activity, and every result is read from that matrix;
\* add_consistency_to_resumen and add_consistency_to_clean score the activity
\* column alone, so their scores are those of the table with the detail
\* column emptied.
C9_DetailScoredBySimilarityScorer ==
  /\ SimFitted =>
       LET w == FitOf(MergeDetail(df, ColActividad, ColDetalle))
       IN /\ w.step = "loop"
          /\ w.codigos = wk.codigos
          /\ w.sim_matrix = wk.sim_matrix
  /\ SimRunning =>
       \A i \in 1..Len(wk.results) : wk.results[i] \in RowResults(wk, i)
  /\ (op = "resumen" /\ pc = "done") =>
       \A i \in 1..Len(out.rows) :
         out.rows[i][ColConsistencia] =
           NumCell(evaluate_consistency(
                     BlankDetail(df, ColDetalle).rows[i][ColObjetivo],
                     BlankDetail(df, ColDetalle).rows[i][ColActividad]))
  /\ (op = "clean" /\ pc = "done" /\ HasGroup(df, 1)) =>
       \A i \in 1..Len(out.rows) :
         out.rows[i][ColConsistenciaN(1)] =
           NumCell(CleanScore(BlankDetail(df, ColDetalleN(1)).rows[i],
                              ColObjetivoN(1), ColActividadN(1)))

\* a row with an empty activity whose detail alone gives it a similarity to
\* an objective of the catalog
C9_Witness ==
  /\ op = "sim" /\ pc = "done"
  /\ \E i \in 1..Len(out.rows) :
       /\ df.rows[i][ColActividad] = StrCell("")
       /\ df.rows[i][ColDetalle] = StrCell("evaluación")
       /\ ~IsZero(out.rows[i][ColSimMejor].x)

ResultCols ==
  {ColConsistencia, ColMasParecido, ColSimElegido, ColSimMejor, ColRank, ColNivel}
  \cup {ColConsistenciaN(g) : g \in 1..Len(Digits)} \cup {ColNivelN(g) : g \in 1..Len(Digits)}

\* the columns the scorer in hand reads
RequiredCols ==
  IF op = "sim" THEN {ColCodigo, ColObjetivo, ColActividad, ColDetalle}
  ELSE IF op = "resumen" THEN {ColObjetivo, ColActividad}
  ELSE {}

\* C10: applying a scorer to a table returns a table with one row per input
\* row, in the same order, with the value of every column of the input
\* unchanged and only result columns added.  (Stated for the three scorers
\* the claim names, compute_consistency_for_df, add_consistency_to_clean and
\* add_consistency_to_resumen, on tables that hold the columns the scorer
\* reads.)
C10_OneRowPerInputRow ==
  (op \in {"sim", "clean", "resumen"} /\ pc \in {"done", "raised"}
     /\ RequiredCols \subseteq df.cols) =>
    /\ pc = "done"
    /\ Len(out.rows) = Len(df.rows)
    /\ df.cols \subseteq out.cols /\ out.cols \ df.cols \subseteq ResultCols
    /\ \A i \in 1..Len(out.rows) : \A c \in df.cols : out.rows[i][c] = df.rows[i][c]

\* table t with column c added, holding "" in every row
WithEmptyColumn(t, c) ==
  [cols |-> t.cols \cup {c},
   rows |-> [i \in 1..Len(t.rows) |->
               [d \in t.cols \cup {c} |-> IF d = c THEN StrCell("") ELSE t.rows[i][d]]]]

\* C11: on a table without the optional detail column
\* compute_consistency_for_df does not fail for want of it and scores every
\* row as it scores the table with a detail column of empty strings; on a
\* table without the activity column of a group add_consistency_to_clean
\* gives every row the score of an empty activity.
C11_MissingColumnAsEmpty ==
  /\ (op = "sim" /\ pc = "raised" /\ ColDetalle \notin df.cols
        /\ {ColCodigo, ColObjetivo, ColActividad} \subseteq df.cols) =>
       FitOf(WithEmptyColumn(df, ColDetalle)).step = "raised"
  /\ (op = "sim" /\ pc = "done" /\ ColDetalle \notin df.cols) =>
       LET w == FitOf(WithEmptyColumn(df, ColDetalle))
       IN /\ w.step = "loop"
          /\ \A i \in 1..Len(wk.results) : wk.results[i] \in RowResults(w, i)
  /\ (op = "clean" /\ pc = "done" /\ ColObjetivoN(1) \in df.cols
        /\ ColActividadN(1) \notin df.cols) =>
       \A i \in 1..Len(out.rows) :
         out.rows[i][ColConsistenciaN(1)] =
           NumCell(CleanScore(WithEmptyColumn(df, ColActividadN(1)).rows[i],
                              ColObjetivoN(1), ColActividadN(1)))

\* the rank of position j_sel under a stable descending sort of sims
StableRank(sims, j_sel) ==
  1 + Cardinality({j \in 1..Len(sims) : ~FGeq(sims[j_sel], sims[j])})
    + Cardinality({j \in 1..Len(sims) : j < j_sel /\ sims[j] = sims[j_sel]})

\* the first position of sims holding its maximum
FirstBest(sims) ==
  CHOOSE j \in 1..Len(sims) :
    /\ sims[j] = MaxOf(sims)
    /\ \A m \in 1..Len(sims) : sims[m] = MaxOf(sims) => j <= m

\* C12: for every row whose code is in the catalog, the rank of the chosen
\* objective is 1 + the number of catalog objectives of strictly higher
\* similarity + the number of equal similarity that precede it in the
\* catalog, and the reported best objective is the first catalog entry of
\* maximal similarity.
C12_StableRank ==
  SimRunning =>
    \A i \in 1..Len(wk.results) :
      ~AbsentRow(i) =>
        LET sims == wk.sim_matrix[i]
            j_sel == IdxByCodigo(wk.codigos, CodigoElegido(df, i, ColCodigo))
        IN /\ wk.results[i].rank = NumCell(StableRank(sims, j_sel))
           /\ wk.results[i].best = wk.codigos[FirstBest(sims)]

\* C13: the catalog holds one entry for each distinct objective code of the
\* table, so a code has a single catalog position and a single text, and
\* every row is compared against the catalog entry that holds its own code
\* and its own objective text.
C13_OneEntryPerCode ==
  SimRunning =>
    /\ \A j, m \in 1..Len(wk.codigos) : wk.codigos[j] = wk.codigos[m] => j = m
    /\ \A i \in 1..Len(df.rows) :
         ~AbsentRow(i) =>
           SameCell(Catalog(df, ColCodigo, ColObjetivo)
                      [IdxByCodigo(wk.codigos, CodigoElegido(df, i, ColCodigo))][2],
                    df.rows[i][ColObjetivo])

(***************************************************************************)
(* The body of the scoring loop on its own (src/utils.py, lines 137-165):  *)
(* one row with a chosen code, against a catalog of up to MaxCatalog codes *)
(* and the row of similarities to them.                                    *)
(***************************************************************************)
MaxCatalog == 4

\* similarities below the vagueness threshold, and with ratios on each side
\* of 0.40 and 0.70
RowSims == {Zero, Micro(90000), Micro(350000), Micro(450000)}

\* catalogs of n codes: all distinct, or the first code once more at the end
RowCatalogs(n) ==
  {[j \in 1..n |-> StrCell("O" \o Digits[j])],
   [j \in 1..n |-> StrCell("O" \o Digits[IF j = n THEN 1 ELSE j])]}

RowInit ==
  /\ call \in {[fn |-> "row", args |-> <<codigos, sims, codigo>>, done |-> FALSE,
                ret |-> AbsentResult] :
                 codigos \in UNION {RowCatalogs(n) : n \in 1..MaxCatalog},
                 sims \in UNION {[1..n -> RowSims] : n \in 1..MaxCatalog},
                 codigo \in {StrCell("O" \o Digits[j]) : j \in 1..(MaxCatalog + 1)}}
  /\ Len(call.args[1]) = Len(call.args[2])
  /\ df = NoTable /\ naKept = FALSE /\ op = "none" /\ pc = "idle"
  /\ wk = Idle /\ out = NoTable

\* one pass of the loop body for the row
RowCall ==
  /\ call.fn = "row" /\ ~call.done
  /\ LET codigos == call.args[1]
         sims == call.args[2]
         codigo_elegido == call.args[3]
     IN IF ~InCatalog(codigos, codigo_elegido)
        THEN call' = [call EXCEPT !.done = TRUE, !.ret = AbsentResult]
        ELSE \E order \in Argsort(sims) :
               call' = [call EXCEPT !.done = TRUE,
                                    !.ret = ScoredResult(codigos, sims,
                                                         IdxByCodigo(codigos, codigo_elegido),
                                                         order)]
  /\ UNCHANGED <<df, naKept, op, pc, wk, out>>

SpecRank == (ScoreInit \/ RowInit) /\ [][ScoreCall \/ MapCall \/ RowCall]_vars

ScoreReturned == call.fn = "score_consistency" /\ call.done

\* the loop body has scored the row against the catalog
RowScored == call.fn = "row" /\ call.done /\ call.ret.rank.k = "num"

\* C14: with sim_best >= 0.10 the score is at least 50 exactly when the
\* chosen objective has rank 1, and a chosen objective of rank 4 or more
\* scores at most 10; a chosen objective of rank 2 or more scores at most 30;
\* in every scored row the similarity to the chosen objective is at most the
\* best similarity, and at rank 1 the two are equal and the best objective is
\* the chosen one.
C14_RankBoundsScore ==
  /\ ScoreReturned =>
       /\ FGeq(call.args[2], Hundredths[10]) =>
            /\ (call.ret >= 50) <=> (call.args[3] = 1)
            /\ call.args[3] >= 4 => call.ret <= 10
       /\ call.args[3] >= 2 => call.ret <= 30
  /\ RowScored =>
       /\ FGeq(call.ret.sim_best.x, Hundredths[10]) =>
            /\ (call.ret.score.n >= 50) <=> (call.ret.rank.n = 1)
            /\ call.ret.rank.n >= 4 => call.ret.score.n <= 10
       /\ call.ret.rank.n >= 2 => call.ret.score.n <= 30
       /\ FGeq(call.ret.sim_best.x, call.ret.sim_sel.x)
       /\ call.ret.rank.n = 1 =>
            /\ call.ret.sim_sel = call.ret.sim_best
            /\ call.ret.best = call.args[3]

\* a row whose chosen objective, close to the best one, is ranked fourth and
\* scores 10
C14_Witness ==
  /\ RowScored
  /\ call.ret.rank.n = 4
  /\ call.ret.sim_best = FloatCell(Micro(450000))
  /\ call.ret.sim_sel = FloatCell(Micro(350000))
  /\ call.ret.score.n = 10

====
